---- MODULE Spec2Model ----
(***************************************************************************)
(* Graliffer: a grid-based interpreter (Grid, Head, Stack, Console held by *)
(* a Frame) and its reversible-action engine (FrameAction, Artifact,       *)
(* History).                                                               *)
(*                                                                         *)
(* Text is modelled as a sequence of character codes (ASCII), so that the  *)
(* coordinate codec, the Address/Pointer prefixes, opcode names and number *)
(* parsing/formatting are computed the way the code computes them.  All    *)
(* characters used are ASCII: one grapheme = one char = one byte.          *)
(***************************************************************************)
EXTENDS Integers, Sequences, FiniteSets, TLC

\* ------------------------------------------------------------------------
\* Generic helpers
\* ------------------------------------------------------------------------
Ok(v) == [ok |-> TRUE, val |-> v]

Err == [ok |-> FALSE]

None == [type |-> "None"]

\* value fits an unsigned 32-bit integer: 0 <= value < 2^32 (2^16 * 2^16)
FitsU32(value) == value >= 0 /\ (value \div 65536) < 65536

\* ------------------------------------------------------------------------
\* utils.rs : Direction
\* ------------------------------------------------------------------------
Direction == {"Up", "Right", "Down", "Left"}

\* ------------------------------------------------------------------------
\* frame/grid/position.rs : PositionAxis, Position
\* ------------------------------------------------------------------------
MIN_NUMERIC == 0

MAX_NUMERIC == 63

is_valid_numeric(value) == value >= MIN_NUMERIC /\ value <= MAX_NUMERIC

\* Faulty variant of numeric_to_textual: a-z is laid one char too low.
numeric_to_textual_low(coordinate) ==
    IF ~is_valid_numeric(coordinate) THEN Err
    ELSE IF coordinate <= 25 THEN Ok(coordinate + 65)
    ELSE IF coordinate <= 51 THEN Ok(coordinate - 26 + 96)
    ELSE IF coordinate <= 61 THEN Ok(coordinate - 52 + 48)
    ELSE IF coordinate = 62 THEN Ok(43)
    ELSE Ok(47)

numeric_to_textual(coordinate) ==
    IF ~is_valid_numeric(coordinate) THEN Err
    ELSE IF coordinate <= 25 THEN Ok(coordinate + 65)
    ELSE IF coordinate <= 51 THEN Ok(coordinate - 26 + 97)
    ELSE IF coordinate <= 61 THEN Ok(coordinate - 52 + 48)
    ELSE IF coordinate = 62 THEN Ok(43)
    ELSE Ok(47)

textual_to_numeric(coordinate) ==
    IF coordinate >= 65 /\ coordinate <= 90 THEN Ok(coordinate - 65)
    ELSE IF coordinate >= 97 /\ coordinate <= 122 THEN Ok(coordinate - 97 + 26)
    ELSE IF coordinate >= 48 /\ coordinate <= 57 THEN Ok(coordinate - 48 + 52)
    ELSE IF coordinate = 43 THEN Ok(62)
    ELSE IF coordinate = 47 THEN Ok(63)
    ELSE Err

\* PositionAxis::from_numeric
AxisFromNumeric(coordinate) ==
    IF ~is_valid_numeric(coordinate) THEN Err ELSE Ok(coordinate)

\* PositionAxis::from_textual
AxisFromTextual(coordinate) ==
    LET n == textual_to_numeric(coordinate)
    IN  IF n.ok THEN AxisFromNumeric(n.val) ELSE Err

\* Faulty variant of checked_increment: the sum is clamped to the last
\* coordinate instead of refused.
checked_increment_clamped(axis, value) ==
    IF axis + value > MAX_NUMERIC THEN Ok(MAX_NUMERIC) ELSE Ok(axis + value)

\* PositionAxis::checked_increment : u32 checked_add, then from_numeric
checked_increment(axis, value) ==
    IF ~FitsU32(axis + value) THEN Err ELSE AxisFromNumeric(axis + value)

\* PositionAxis::checked_decrement : u32 checked_sub, then from_numeric
checked_decrement(axis, value) ==
    IF axis - value < 0 THEN Err ELSE AxisFromNumeric(axis - value)

Pos(x, y) == [x |-> x, y |-> y]

ORIGIN == Pos(0, 0)

\* Position::from_textual
PositionFromTextual(x, y) ==
    LET from_position_axis(ax, ay) ==
            IF ax.ok /\ ay.ok THEN Ok(Pos(ax.val, ay.val)) ELSE Err
    IN  from_position_axis(AxisFromTextual(x), AxisFromTextual(y))

\* Position::as_textual
PositionAsTextual(position) ==
    <<numeric_to_textual(position.x).val, numeric_to_textual(position.y).val>>

\* impl TryFrom<&str> for Position : the first two chars, the rest ignored
PositionTryFrom(string) ==
    IF Len(string) >= 2 THEN PositionFromTextual(string[1], string[2]) ELSE Err

checked_increment_x(position, value) ==
    LET r == checked_increment(position.x, value)
    IN  IF r.ok THEN Ok(Pos(r.val, position.y)) ELSE Err

checked_increment_y(position, value) ==
    LET r == checked_increment(position.y, value)
    IN  IF r.ok THEN Ok(Pos(position.x, r.val)) ELSE Err

checked_decrement_x(position, value) ==
    LET r == checked_decrement(position.x, value)
    IN  IF r.ok THEN Ok(Pos(r.val, position.y)) ELSE Err

checked_decrement_y(position, value) ==
    LET r == checked_decrement(position.y, value)
    IN  IF r.ok THEN Ok(Pos(position.x, r.val)) ELSE Err

\* Position::checked_step
checked_step(position, direction, offset) ==
    CASE direction = "Up" -> checked_decrement_y(position, offset)
      [] direction = "Right" -> checked_increment_x(position, offset)
      [] direction = "Down" -> checked_increment_y(position, offset)
      [] direction = "Left" -> checked_decrement_x(position, offset)

\* ------------------------------------------------------------------------
\* frame/grid/cell.rs : Cell (a string of at most 3 graphemes)
\* ------------------------------------------------------------------------
MAX_GRAPHEMES == 3

EmptyCell == <<>>

\* A text is the sequence of its chars (Unicode scalar values).
\* str::graphemes(true) of the unicode-segmentation crate, for texts made of
\* letters, digits, signs, ZERO WIDTH JOINER (U+200D) and the pictographs
\* U+1F300..U+1FAFF: a grapheme starts at every char except a joiner (rule
\* GB9) and a pictograph joined to a pictograph (rule GB11).
GraphemeStarts(string) ==
    LET IsJoiner(c) == c = 8205
        IsPictographic(c) == c >= 127744 /\ c <= 129791
    IN  {i \in 1..Len(string) :
            \/ i = 1
            \/ /\ ~IsJoiner(string[i])
               /\ ~(/\ i >= 3
                    /\ IsPictographic(string[i])
                    /\ IsJoiner(string[i - 1])
                    /\ IsPictographic(string[i - 2]))}

\* string.graphemes(true).count()
graphemes_count(string) == Cardinality(GraphemeStarts(string))

\* Cell::new
CellNew(string) ==
    IF graphemes_count(string) > MAX_GRAPHEMES THEN Err ELSE Ok(string)

\* Cell::new_trim : keeps the first 3 graphemes
new_trim(string) ==
    LET Taken(starts) ==
            IF Cardinality(starts) > MAX_GRAPHEMES
            THEN SubSeq(string, 1,
                        (CHOOSE i \in starts :
                            Cardinality({j \in starts : j < i}) = MAX_GRAPHEMES) - 1)
            ELSE string
    IN  Taken(GraphemeStarts(string))

\* char::len_utf8
len_utf8(c) ==
    IF c < 128 THEN 1 ELSE IF c < 2048 THEN 2 ELSE IF c < 65536 THEN 3 ELSE 4

\* str::char_indices : the byte offset of the char of index n (from 0), or
\* the byte length of the text for n = Len(s)
RECURSIVE ByteOffset(_, _)
ByteOffset(s, n) ==
    IF n = 0 THEN 0 ELSE ByteOffset(s, n - 1) + len_utf8(s[n])

byte_index_from_char_index(s, char_index) ==
    IF char_index < Len(s) THEN ByteOffset(s, char_index)
    ELSE ByteOffset(s, Len(s))

\* The number of chars before a byte offset, when it is a char boundary
\* (str::is_char_boundary)
CharsBefore(s, byte_index) ==
    LET At(boundaries) ==
            IF boundaries = {} THEN Err ELSE Ok(CHOOSE n \in boundaries : TRUE)
    IN  At({n \in 0..Len(s) : ByteOffset(s, n) = byte_index})

\* String::insert_str : panics off a char boundary
insert_str(s, byte_index, string) ==
    LET At(n) ==
            IF n.ok
            THEN Ok(SubSeq(s, 1, n.val) \o string \o SubSeq(s, n.val + 1, Len(s)))
            ELSE Err
    IN  At(CharsBefore(s, byte_index))

\* String::drain(byte_start..byte_end) : panics off a char boundary or on a
\* decreasing range; val.kept is what stays, val.drained what is removed
drain(s, byte_start, byte_end) ==
    LET Cut(from, to) ==
            IF from.ok /\ to.ok /\ byte_start <= byte_end
            THEN Ok([kept |-> SubSeq(s, 1, from.val)
                                \o SubSeq(s, to.val + 1, Len(s)),
                     drained |-> SubSeq(s, from.val + 1, to.val)])
            ELSE Err
    IN  Cut(CharsBefore(s, byte_start), CharsBefore(s, byte_end))

\* The outcome of a call on a Cell: the Cell after it, the value it returned,
\* whether it panicked
CellOutcome(cell, returned) ==
    [cell |-> cell, returned |-> returned, panicked |-> FALSE]

CellPanic(cell) == [cell |-> cell, returned |-> Err, panicked |-> TRUE]

\* Cell::insert_at
insert_at(cell, string, char_index) ==
    LET Checked(self_owned) ==
            IF ~self_owned.ok THEN CellPanic(cell)
            ELSE IF ~CellNew(self_owned.val).ok THEN CellOutcome(cell, Err)
            ELSE CellOutcome(self_owned.val, Ok(Len(string)))
    IN  Checked(insert_str(cell, byte_index_from_char_index(cell, char_index),
                           string))

\* Cell::delete_char_range
delete_char_range(cell, start, end) ==
    LET Drained(d) ==
            IF ~d.ok THEN CellPanic(cell)
            ELSE CellOutcome(d.val.kept, Ok(Len(d.val.drained)))
    IN  IF start > end THEN CellPanic(cell)
        ELSE Drained(drain(cell, byte_index_from_char_index(cell, start),
                           byte_index_from_char_index(cell, end)))

\* Cell::set
CellSet(cell, content) ==
    LET Assigned(intern) ==
            IF intern.ok THEN CellOutcome(intern.val, Ok(intern.val))
            ELSE CellOutcome(cell, Err)
    IN  Assigned(CellNew(content))

\* <Cell as egui::TextBuffer>::insert_text
insert_text(cell, text, char_index) ==
    LET Unwrapped(o) ==
            [o EXCEPT !.returned = IF o.returned.ok THEN o.returned.val ELSE 0]
    IN  Unwrapped(insert_at(cell, text, char_index))

is_empty(cell) == Len(cell) = 0

\* ------------------------------------------------------------------------
\* frame/grid.rs : Grid, a sparse map Position -> Cell
\* ------------------------------------------------------------------------
EmptyGrid == [p \in {} |-> EmptyCell]

GridGet(grid, position) ==
    IF position \in DOMAIN grid THEN grid[position] ELSE EmptyCell

\* Faulty variant of Grid::set: an empty cell is stored like any other.
GridSetCellStoresEmpty(grid, position, cell) ==
    [p \in (DOMAIN grid) \cup {position} |->
        IF p = position THEN cell ELSE grid[p]]

\* Faulty variant of Grid::set: the other cells are dropped.
GridSetCellAlone(grid, position, cell) ==
    IF is_empty(cell) THEN EmptyGrid
    ELSE [p \in {position} |-> cell]

GridSetCell(grid, position, cell) ==
    IF is_empty(cell)
    THEN [p \in (DOMAIN grid) \ {position} |-> grid[p]]
    ELSE [p \in (DOMAIN grid) \cup {position} |->
            IF p = position THEN cell ELSE grid[p]]

\* ------------------------------------------------------------------------
\* frame/head.rs : Head
\* ------------------------------------------------------------------------
HeadDefault == [position |-> ORIGIN, direction |-> "Right"]

\* Faulty variant of the position computed by Head::step: Up and Down
\* exchanged.
HeadStepResultFlipped(head) ==
    CASE head.direction = "Up"    -> checked_increment_y(head.position, 1)
      [] head.direction = "Right" -> checked_increment_x(head.position, 1)
      [] head.direction = "Down"  -> checked_decrement_y(head.position, 1)
      [] head.direction = "Left"  -> checked_decrement_x(head.position, 1)

\* Head::step : on error the position is left as it was
HeadStepResult(head) ==
    CASE head.direction = "Up"    -> checked_decrement_y(head.position, 1)
      [] head.direction = "Right" -> checked_increment_x(head.position, 1)
      [] head.direction = "Down"  -> checked_increment_y(head.position, 1)
      [] head.direction = "Left"  -> checked_decrement_x(head.position, 1)

\* Faulty variant of Head::step: the position computed without the
\* range check of the grid.
HeadSteppedUnchecked(head) ==
    CASE head.direction = "Up"    -> [head EXCEPT !.position.y = @ - 1]
      [] head.direction = "Right" -> [head EXCEPT !.position.x = @ + 1]
      [] head.direction = "Down"  -> [head EXCEPT !.position.y = @ + 1]
      [] head.direction = "Left"  -> [head EXCEPT !.position.x = @ - 1]

HeadStepped(head) ==
    LET Assigned(r) == IF r.ok THEN [head EXCEPT !.position = r.val] ELSE head
    IN  Assigned(HeadStepResult(head))


\* ------------------------------------------------------------------------
\* lang/operand.rs : Literal (a Cell read as text, number or boolean)
\* ------------------------------------------------------------------------
IsDigit(c) == c >= 48 /\ c <= 57

RECURSIVE DigitsValue(_)
DigitsValue(digits) ==
    IF Len(digits) = 0 THEN 0
    ELSE 10 * DigitsValue(SubSeq(digits, 1, Len(digits) - 1))
         + (digits[Len(digits)] - 48)

\* str::parse::<u32> : an optional leading '+', then one or more decimal
\* digits, the value fitting 32 bits
ParseU32(string) ==
    LET digits == IF Len(string) > 0 /\ string[1] = 43
                  THEN SubSeq(string, 2, Len(string)) ELSE string
    IN  IF Len(digits) = 0 THEN Err
        ELSE IF \E i \in 1..Len(digits) : ~IsDigit(digits[i]) THEN Err
        ELSE IF ~FitsU32(DigitsValue(digits)) THEN Err
        ELSE Ok(DigitsValue(digits))

\* u32::to_string
RECURSIVE to_string(_)
to_string(value) ==
    IF value < 10 THEN <<48 + value>>
    ELSE Append(to_string(value \div 10), 48 + (value % 10))

\* Literal::from_bool
from_bool(value) == new_trim(IF value THEN <<49>> ELSE <<48>>)

\* Literal::from_number
from_number(value) == new_trim(to_string(value))

\* Literal::as_bool
\* Faulty variant of Literal::as_bool: any text other than "0" is true.
as_bool_lenient(literal) ==
    IF literal = <<48>> THEN Ok(FALSE) ELSE Ok(TRUE)

as_bool(literal) ==
    IF literal = <<48>> THEN Ok(FALSE)
    ELSE IF literal = <<49>> THEN Ok(TRUE)
    ELSE Err

\* Literal::as_bool_with_default
as_bool_with_default(literal) == literal # <<48>>

\* Literal::as_numeric
as_numeric(literal) == ParseU32(literal)

\* Faulty variant of Literal::as_numeric_with_default: the default is 1.
as_numeric_with_default_one(literal) ==
    LET r == ParseU32(literal) IN IF r.ok THEN r.val ELSE 1

\* Literal::as_numeric_with_default
as_numeric_with_default(literal) ==
    LET r == ParseU32(literal) IN IF r.ok THEN r.val ELSE 0

\* ------------------------------------------------------------------------
\* lang/operand.rs : Address, Pointer, Operand
\* ------------------------------------------------------------------------
ADDRESS_PREFIX == 64

POINTER_PREFIX == 38

MAX_RECURSION_DEPTH == 3

Literal(cell) == [kind |-> "Literal", value |-> cell]

Address(position) == [kind |-> "Address", position |-> position]

Pointer(position) == [kind |-> "Pointer", position |-> position]

\* str::strip_prefix, then Position::try_from
PrefixedPosition(cell, prefix) ==
    IF Len(cell) > 0 /\ cell[1] = prefix
    THEN PositionTryFrom(SubSeq(cell, 2, Len(cell)))
    ELSE Err

\* Address::from_cell
AddressFromCell(cell) == PrefixedPosition(cell, ADDRESS_PREFIX)

\* Pointer::from_cell
PointerFromCell(cell) == PrefixedPosition(cell, POINTER_PREFIX)

\* Address::as_cell / Pointer::as_cell
PrefixedCell(prefix, position) ==
    CellNew(<<prefix>> \o PositionAsTextual(position)).val

\* Operand::from_cell
OperandFromCell(cell) ==
    LET Matched(address, pointer) ==
            IF Len(cell) > 0 /\ cell[1] = ADDRESS_PREFIX /\ address.ok
            THEN Address(address.val)
            ELSE IF Len(cell) > 0 /\ cell[1] = POINTER_PREFIX /\ pointer.ok
            THEN Pointer(pointer.val)
            ELSE Literal(cell)
    IN  Matched(AddressFromCell(cell), PointerFromCell(cell))

\* Operand::as_cell
OperandAsCell(operand) ==
    CASE operand.kind = "Literal" -> operand.value
      [] operand.kind = "Address" -> PrefixedCell(ADDRESS_PREFIX, operand.position)
      [] operand.kind = "Pointer" -> PrefixedCell(POINTER_PREFIX, operand.position)

\* Faulty variant of Address::fetch_literal: a fetched text of the form @XY
\* is followed once more.
fetch_literal_twice(position, grid) ==
    IF AddressFromCell(GridGet(grid, position)).ok
    THEN GridGet(grid, AddressFromCell(GridGet(grid, position)).val)
    ELSE GridGet(grid, position)

\* Address::fetch_literal
fetch_literal(position, grid) == GridGet(grid, position)

\* Pointer::resolve_recursively : the inner fn get(depth, pointer, grid)
RECURSIVE PointerGet(_, _, _)
PointerGet(depth, position, grid) ==
    LET pointed_cell == GridGet(grid, position)
        Followed(pointer) ==
            IF pointer.ok
            THEN IF depth + 1 >= MAX_RECURSION_DEPTH
                 THEN pointed_cell
                 ELSE PointerGet(depth + 1, pointer.val, grid)
            ELSE pointed_cell
    IN  Followed(PointerFromCell(pointed_cell))

resolve_recursively(position, grid) == PointerGet(0, position, grid)

\* Pointer::resolve_to_operand
resolve_to_operand(position, grid) ==
    OperandFromCell(resolve_recursively(position, grid))

\* A call either returns a value or never returns.
Returned(v) == [returns |-> TRUE, val |-> v]

Diverges == [returns |-> FALSE]

\* Operand::resolve_to_literal and Pointer::resolve_to_literal call each
\* other; the grid does not change during the calls, so a call that is
\* entered again with a pointer it was already entered with recurses
\* without end (`entered` holds the pointers of the calls in progress).
\* Faulty variant of the resolution to a literal: an Address gives its own
\* text instead of the cell it refers to.
RECURSIVE ResolveToLiteralOwnText(_, _, _)
ResolveToLiteralOwnText(operand, grid, entered) ==
    CASE operand.kind = "Literal" -> Returned(operand.value)
      [] operand.kind = "Address" -> Returned(OperandAsCell(operand))
      [] operand.kind = "Pointer" ->
            IF operand.position \in entered THEN Diverges
            ELSE ResolveToLiteralOwnText(resolve_to_operand(operand.position, grid),
                                         grid, entered \cup {operand.position})

RECURSIVE ResolveToLiteralFrom(_, _, _)
ResolveToLiteralFrom(operand, grid, entered) ==
    CASE operand.kind = "Literal" -> Returned(operand.value)
      [] operand.kind = "Address" -> Returned(fetch_literal(operand.position, grid))
      [] operand.kind = "Pointer" ->
            IF operand.position \in entered THEN Diverges
            ELSE ResolveToLiteralFrom(resolve_to_operand(operand.position, grid),
                                      grid, entered \cup {operand.position})

resolve_to_literal(operand, grid) == ResolveToLiteralFrom(operand, grid, {})

\* Faulty variant of the resolution to an address: a Literal is taken for
\* the address of the origin.
RECURSIVE ResolveToAddressLenient(_, _, _)
ResolveToAddressLenient(operand, grid, entered) ==
    CASE operand.kind = "Literal" -> Returned(Ok(ORIGIN))
      [] operand.kind = "Address" -> Returned(Ok(operand.position))
      [] operand.kind = "Pointer" ->
            IF operand.position \in entered THEN Diverges
            ELSE ResolveToAddressLenient(resolve_to_operand(operand.position, grid),
                                         grid, entered \cup {operand.position})

\* Operand::resolve_to_address and Pointer::resolve_to_address, likewise
RECURSIVE ResolveToAddressFrom(_, _, _)
ResolveToAddressFrom(operand, grid, entered) ==
    CASE operand.kind = "Literal" -> Returned(Err)
      [] operand.kind = "Address" -> Returned(Ok(operand.position))
      [] operand.kind = "Pointer" ->
            IF operand.position \in entered THEN Diverges
            ELSE ResolveToAddressFrom(resolve_to_operand(operand.position, grid),
                                      grid, entered \cup {operand.position})

resolve_to_address(operand, grid) == ResolveToAddressFrom(operand, grid, {})

\* ------------------------------------------------------------------------
\* lang/opcode.rs, lang.rs : Opcode names and Word classification
\* ------------------------------------------------------------------------
OpcodeName ==
    [ Dbg |-> <<100,98,103>>, Hlt |-> <<104,108,116>>, Nop |-> <<110,111,112>>,
      Gou |-> <<103,111,117>>, Gor |-> <<103,111,114>>, God |-> <<103,111,100>>,
      Gol |-> <<103,111,108>>, Jmp |-> <<106,109,112>>, Igu |-> <<105,103,117>>,
      Igr |-> <<105,103,114>>, Igd |-> <<105,103,100>>, Igl |-> <<105,103,108>>,
      Ijp |-> <<105,106,112>>, Add |-> <<97,100,100>>, Sub |-> <<115,117,98>>,
      Mul |-> <<109,117,108>>, Div |-> <<100,105,118>>, Equ |-> <<101,113,117>>,
      Neq |-> <<110,101,113>>, Grt |-> <<103,114,116>>, Lst |-> <<108,115,116>>,
      Grq |-> <<103,114,113>>, Lsq |-> <<108,115,113>>, Set |-> <<115,101,116>>,
      Prt |-> <<112,114,116>> ]

Opcode == DOMAIN OpcodeName

\* Opcode::from_str (strum EnumString, lowercase, exact match)
OpcodeFromCell(cell) ==
    IF \E o \in Opcode : OpcodeName[o] = cell
    THEN Ok(CHOOSE o \in Opcode : OpcodeName[o] = cell)
    ELSE Err

is_cell_valid(cell) == OpcodeFromCell(cell).ok

\* Word::from_cell
WordFromCell(cell) ==
    IF is_cell_valid(cell)
    THEN [word |-> "Opcode", opcode |-> OpcodeFromCell(cell).val]
    ELSE [word |-> "Operand", operand |-> OperandFromCell(cell)]

\* ------------------------------------------------------------------------
\* frame.rs : FrameAction, the reversible primitives
\* history.rs : ReciprocalAction, Artifact
\* ------------------------------------------------------------------------
GridSet(position, cell) ==
    [type |-> "GridSet", position |-> position, cell |-> cell]

StackPush(operand) == [type |-> "StackPush", operand |-> operand]

StackPop == [type |-> "StackPop"]

HeadMoveTo(position) == [type |-> "HeadMoveTo", position |-> position]

HeadDirectTo(direction) == [type |-> "HeadDirectTo", direction |-> direction]

HeadStep == [type |-> "HeadStep"]

ConsolePrint(string) == [type |-> "ConsolePrint", string |-> string]

\* Artifact::EMPTY
EMPTY == <<>>

\* Artifact::from_redo
from_redo(redo) == <<[redo |-> redo, undo |-> None]>>

\* Artifact::from_redo_undo
from_redo_undo(redo, undo) == <<[redo |-> redo, undo |-> undo]>>

\* Artifact::push
ArtifactPush(artifact, other) == artifact \o other

\* A Frame is [grid, head, stack, console]; act returns the changed frame
\* and the Artifact.
\* Faulty variant of GridSet: the undo erases the cell instead of carrying
\* the previous cell.
ActGridSetUndoErases(action, frame) ==
    [frame |-> [frame EXCEPT
                  !.grid = GridSetCell(frame.grid, action.position, action.cell)],
     artifact |-> from_redo_undo(action, GridSet(action.position, EmptyCell))]

ActGridSet(action, frame) ==
    LET previous_cell == GridGet(frame.grid, action.position)
    IN  [frame |-> [frame EXCEPT
                      !.grid = GridSetCell(frame.grid, action.position, action.cell)],
         artifact |-> from_redo_undo(action, GridSet(action.position, previous_cell))]

\* Faulty variant of StackPush: recorded without its undo, as ConsolePrint is.
ActStackPushRedoOnly(action, frame) ==
    [frame |-> [frame EXCEPT !.stack = Append(frame.stack, action.operand)],
     artifact |-> from_redo(action)]

ActStackPush(action, frame) ==
    [frame |-> [frame EXCEPT !.stack = Append(frame.stack, action.operand)],
     artifact |-> from_redo_undo(action, StackPop)]

\* Faulty variant of StackPop: on an empty stack the Artifact still
\* carries an undo, pushing an empty Literal.
ActStackPopEmptyUndo(action, frame) ==
    IF Len(frame.stack) > 0
    THEN [frame |-> [frame EXCEPT
                       !.stack = SubSeq(frame.stack, 1, Len(frame.stack) - 1)],
          artifact |-> from_redo_undo(action,
                                      StackPush(frame.stack[Len(frame.stack)]))]
    ELSE [frame |-> frame,
          artifact |-> from_redo_undo(action, StackPush(Literal(EmptyCell)))]

ActStackPop(action, frame) ==
    IF Len(frame.stack) > 0
    THEN [frame |-> [frame EXCEPT
                       !.stack = SubSeq(frame.stack, 1, Len(frame.stack) - 1)],
          artifact |-> from_redo_undo(action,
                                      StackPush(frame.stack[Len(frame.stack)]))]
    ELSE [frame |-> frame, artifact |-> from_redo(action)]

ActHeadMoveTo(action, frame) ==
    LET old_position == frame.head.position
    IN  [frame |-> [frame EXCEPT !.head.position = action.position],
         artifact |-> from_redo_undo(action, HeadMoveTo(old_position))]

ActHeadDirectTo(action, frame) ==
    LET old_direction == frame.head.direction
    IN  [frame |-> [frame EXCEPT !.head.direction = action.direction],
         artifact |-> from_redo_undo(action, HeadDirectTo(old_direction))]

ActHeadStep(action, frame) ==
    LET old_position == frame.head.position
    IN  [frame |-> [frame EXCEPT !.head = HeadStepped(frame.head)],
         artifact |-> from_redo_undo(action, HeadMoveTo(old_position))]

\* Faulty variant of ConsolePrint: the buffer is replaced by the text.
ActConsolePrintOverwrites(action, frame) ==
    [frame |-> [frame EXCEPT !.console = action.string],
     artifact |-> from_redo(action)]

ActConsolePrint(action, frame) ==
    [frame |-> [frame EXCEPT !.console = frame.console \o action.string],
     artifact |-> from_redo(action)]

\* FrameAction::act
FrameActionAct(action, frame) ==
    CASE action.type = "GridSet"      -> ActGridSet(action, frame)
      [] action.type = "StackPush"    -> ActStackPush(action, frame)
      [] action.type = "StackPop"     -> ActStackPop(action, frame)
      [] action.type = "HeadMoveTo"   -> ActHeadMoveTo(action, frame)
      [] action.type = "HeadDirectTo" -> ActHeadDirectTo(action, frame)
      [] action.type = "HeadStep"     -> ActHeadStep(action, frame)
      [] action.type = "ConsolePrint" -> ActConsolePrint(action, frame)

\* Frame::act, on an execution e = [frame, acted]: `acted` logs, in call
\* order, every action acted on the frame during the running operation.
Do(e, action) ==
    LET Acted(r) == [frame |-> r.frame, acted |-> Append(e.acted, action),
                     artifact |-> r.artifact]
    IN  Acted(FrameActionAct(action, e.frame))

\* Artifact::redo : the redo actions, first recorded first
RECURSIVE ArtifactRedoFrom(_, _, _)
ArtifactRedoFrom(artifact, i, e) ==
    IF i > Len(artifact) THEN [frame |-> e.frame, acted |-> e.acted]
    ELSE IF artifact[i].redo # None
    THEN ArtifactRedoFrom(artifact, i + 1, Do(e, artifact[i].redo))
    ELSE ArtifactRedoFrom(artifact, i + 1, e)

ArtifactRedo(artifact, e) == ArtifactRedoFrom(artifact, 1, e)

\* Artifact::undo : the undo actions, last recorded first
RECURSIVE ArtifactUndoFrom(_, _, _)
ArtifactUndoFrom(artifact, i, e) ==
    IF i < 1 THEN [frame |-> e.frame, acted |-> e.acted]
    ELSE IF artifact[i].undo # None
    THEN ArtifactUndoFrom(artifact, i - 1, Do(e, artifact[i].undo))
    ELSE ArtifactUndoFrom(artifact, i - 1, e)

\* Faulty variant of Artifact::undo: the undo actions acted in recording
\* order (the iterator not reversed).
RECURSIVE ArtifactUndoInOrderFrom(_, _, _)
ArtifactUndoInOrderFrom(artifact, i, e) ==
    IF i > Len(artifact) THEN [frame |-> e.frame, acted |-> e.acted]
    ELSE IF artifact[i].undo # None
    THEN ArtifactUndoInOrderFrom(artifact, i + 1, Do(e, artifact[i].undo))
    ELSE ArtifactUndoInOrderFrom(artifact, i + 1, e)

ArtifactUndoInOrder(artifact, e) == ArtifactUndoInOrderFrom(artifact, 1, e)

ArtifactUndo(artifact, e) == ArtifactUndoFrom(artifact, Len(artifact), e)

\* ------------------------------------------------------------------------
\* lang/opcode.rs : the pop helpers.  Each returns the operand read (`res`),
\* the Artifact of its StackPop and the execution after it; `returns` is
\* FALSE when resolving the popped operand never returns.
\* ------------------------------------------------------------------------
\* Faulty variant of pop_operand: the stack popped directly, outside the
\* action system, so that no Artifact records it.
pop_operand_unrecorded(e) ==
    IF Len(e.frame.stack) > 0
    THEN [res |-> Ok(e.frame.stack[Len(e.frame.stack)]),
          frame |-> [e.frame EXCEPT
                       !.stack = SubSeq(e.frame.stack, 1, Len(e.frame.stack) - 1)],
          acted |-> e.acted, artifact |-> EMPTY]
    ELSE [res |-> Err, frame |-> e.frame, acted |-> e.acted, artifact |-> EMPTY]

pop_operand(e) ==
    LET Result(d) ==
            [res |-> Ok(e.frame.stack[Len(e.frame.stack)]),
             frame |-> d.frame, acted |-> d.acted, artifact |-> d.artifact]
    IN  IF Len(e.frame.stack) > 0
        THEN Result(Do(e, StackPop))
        ELSE [res |-> Err, frame |-> e.frame, acted |-> e.acted,
              artifact |-> EMPTY]

Popped(p, returns, res) ==
    [returns |-> returns, res |-> res,
     frame |-> p.frame, acted |-> p.acted, artifact |-> p.artifact]

pop_literal(e) ==
    LET Resolved(p, r) ==
            IF r.returns THEN Popped(p, TRUE, Ok(r.val))
            ELSE Popped(p, FALSE, Err)
        Mapped(p) ==
            IF ~p.res.ok THEN Popped(p, TRUE, Err)
            ELSE Resolved(p, resolve_to_literal(p.res.val, p.frame.grid))
    IN  Mapped(pop_operand(e))

pop_address(e) ==
    LET Resolved(p, r) ==
            IF r.returns THEN Popped(p, TRUE, r.val)
            ELSE Popped(p, FALSE, Err)
        Mapped(p) ==
            IF ~p.res.ok THEN Popped(p, TRUE, Err)
            ELSE Resolved(p, resolve_to_address(p.res.val, p.frame.grid))
    IN  Mapped(pop_operand(e))

pop_as_numeric_with_default(e) ==
    LET Resolved(p, r) ==
            IF r.returns THEN Popped(p, TRUE, as_numeric_with_default(r.val))
            ELSE Popped(p, FALSE, 0)
        Mapped(p) ==
            IF ~p.res.ok THEN Popped(p, TRUE, 0)
            ELSE Resolved(p, resolve_to_literal(p.res.val, p.frame.grid))
    IN  Mapped(pop_operand(e))

pop_as_bool(e) ==
    LET Resolved(p, r) ==
            IF r.returns THEN Popped(p, TRUE, as_bool(r.val))
            ELSE Popped(p, FALSE, Err)
        Mapped(p) ==
            IF ~p.res.ok THEN Popped(p, TRUE, Err)
            ELSE Resolved(p, resolve_to_literal(p.res.val, p.frame.grid))
    IN  Mapped(pop_operand(e))

\* Faulty variant of pop_as_bool_with_default: false when the stack has run
\* out.
pop_as_bool_default_false(e) ==
    LET Resolved(p, r) ==
            IF r.returns THEN Popped(p, TRUE, as_bool_with_default(r.val))
            ELSE Popped(p, FALSE, TRUE)
        Mapped(p) ==
            IF ~p.res.ok THEN Popped(p, TRUE, FALSE)
            ELSE Resolved(p, resolve_to_literal(p.res.val, p.frame.grid))
    IN  Mapped(pop_operand(e))

pop_as_bool_with_default(e) ==
    LET Resolved(p, r) ==
            IF r.returns THEN Popped(p, TRUE, as_bool_with_default(r.val))
            ELSE Popped(p, FALSE, TRUE)
        Mapped(p) ==
            IF ~p.res.ok THEN Popped(p, TRUE, TRUE)
            ELSE Resolved(p, resolve_to_literal(p.res.val, p.frame.grid))
    IN  Mapped(pop_operand(e))

\* ------------------------------------------------------------------------
\* lang/opcode.rs : Opcode::evaluate, one operator per match arm
\* ------------------------------------------------------------------------
Body(returns, e, artifact) ==
    [returns |-> returns, frame |-> e.frame, acted |-> e.acted,
     artifact |-> artifact]

GoDirection(opcode) ==
    CASE opcode = "Gou" -> "Up"
      [] opcode = "Gor" -> "Left"
      [] opcode = "God" -> "Down"
      [] opcode = "Gol" -> "Left"

EvalGo(opcode, e) ==
    LET AfterDirect(d) == Body(TRUE, d, d.artifact)
    IN  AfterDirect(Do(e, HeadDirectTo(GoDirection(opcode))))

\* Faulty variant of Jmp: on an empty Stack nothing is popped.
EvalJmpPopsIfAny(e) ==
    LET AfterMove(address_opt, pop, move) ==
            IF ~address_opt.returns THEN Body(FALSE, e, EMPTY)
            ELSE IF address_opt.val.ok
            THEN Body(TRUE, move, ArtifactPush(pop.artifact, move.artifact))
            ELSE Body(TRUE, pop, pop.artifact)
        AfterPop(address_opt, pop) ==
            AfterMove(address_opt, pop,
                      Do(pop, HeadMoveTo(address_opt.val.val)))
        AfterResolve(address_opt) == AfterPop(address_opt, Do(e, StackPop))
    IN  IF Len(e.frame.stack) = 0 THEN Body(TRUE, e, EMPTY)
        ELSE AfterResolve(resolve_to_address(e.frame.stack[Len(e.frame.stack)],
                                             e.frame.grid))

EvalJmp(e) ==
    LET some == Len(e.frame.stack) > 0
        AfterMove(address_opt, pop, move) ==
            IF some /\ ~address_opt.returns THEN Body(FALSE, e, EMPTY)
            ELSE IF some /\ address_opt.val.ok
            THEN Body(TRUE, move, ArtifactPush(pop.artifact, move.artifact))
            ELSE Body(TRUE, pop, pop.artifact)
        AfterPop(address_opt, pop) ==
            AfterMove(address_opt, pop,
                      Do(pop, HeadMoveTo(address_opt.val.val)))
        AfterResolve(address_opt) == AfterPop(address_opt, Do(e, StackPop))
    IN  AfterResolve(resolve_to_address(e.frame.stack[Len(e.frame.stack)],
                                        e.frame.grid))

IfGoDirection(opcode) ==
    CASE opcode = "Igu" -> "Up"
      [] opcode = "Igr" -> "Right"
      [] opcode = "Igd" -> "Down"
      [] opcode = "Igl" -> "Left"

EvalIfGo(opcode, e) ==
    LET AfterDirect(value, direct) ==
            IF ~value.returns THEN Body(FALSE, value, EMPTY)
            ELSE IF value.res.ok /\ value.res.val
            THEN Body(TRUE, direct,
                      ArtifactPush(value.artifact, direct.artifact))
            ELSE Body(TRUE, value, value.artifact)
        AfterValue(value) ==
            AfterDirect(value, Do(value, HeadDirectTo(IfGoDirection(opcode))))
    IN  AfterValue(pop_as_bool(e))

EvalIjp(e) ==
    LET AfterMove(address, operand, artifact, move) ==
            IF ~address.returns THEN Body(FALSE, address, EMPTY)
            ELSE IF ~operand.returns THEN Body(FALSE, operand, EMPTY)
            ELSE IF address.res.ok /\ operand.res
            THEN Body(TRUE, move, ArtifactPush(artifact, move.artifact))
            ELSE Body(TRUE, operand, artifact)
        AfterOperand(address, operand) ==
            AfterMove(address, operand,
                      ArtifactPush(address.artifact, operand.artifact),
                      Do(operand, HeadMoveTo(address.res.val)))
        AfterAddress(address) ==
            AfterOperand(address, pop_as_bool_with_default(address))
    IN  AfterAddress(pop_address(e))

EvalEqu(opcode, e) ==
    LET AfterPush(rhs, lhs, push) ==
            IF ~rhs.returns THEN Body(FALSE, rhs, EMPTY)
            ELSE IF ~lhs.returns THEN Body(FALSE, lhs, EMPTY)
            ELSE Body(TRUE, push,
                      ArtifactPush(ArtifactPush(rhs.artifact, lhs.artifact),
                                   push.artifact))
        AfterResult(rhs, lhs, result) ==
            AfterPush(rhs, lhs, Do(lhs, StackPush(Literal(from_bool(result)))))
        AfterLhs(rhs, lhs) ==
            AfterResult(rhs, lhs,
                        IF rhs.res.ok /\ lhs.res.ok
                        THEN IF opcode = "Equ" THEN lhs.res.val = rhs.res.val
                             ELSE lhs.res.val # rhs.res.val
                        ELSE FALSE)
        AfterRhs(rhs) == AfterLhs(rhs, pop_literal(rhs))
    IN  AfterRhs(pop_literal(e))

\* Faulty variant of the comparison: the operands taken in the other order.
CompareSwapped(opcode, lhs, rhs) ==
    CASE opcode = "Grt" -> rhs > lhs
      [] opcode = "Lst" -> rhs < lhs
      [] opcode = "Grq" -> rhs >= lhs
      [] opcode = "Lsq" -> rhs <= lhs

Compare(opcode, lhs, rhs) ==
    CASE opcode = "Grt" -> lhs > rhs
      [] opcode = "Lst" -> lhs < rhs
      [] opcode = "Grq" -> lhs >= rhs
      [] opcode = "Lsq" -> lhs <= rhs

EvalCompare(opcode, e) ==
    LET AfterPush(rhs, lhs, push) ==
            IF ~rhs.returns THEN Body(FALSE, rhs, EMPTY)
            ELSE IF ~lhs.returns THEN Body(FALSE, lhs, EMPTY)
            ELSE Body(TRUE, push,
                      ArtifactPush(ArtifactPush(rhs.artifact, lhs.artifact),
                                   push.artifact))
        AfterResult(rhs, lhs, result) ==
            AfterPush(rhs, lhs, Do(lhs, StackPush(Literal(from_bool(result)))))
        AfterLhs(rhs, lhs) ==
            AfterResult(rhs, lhs, Compare(opcode, lhs.res, rhs.res))
        AfterRhs(rhs) == AfterLhs(rhs, pop_as_numeric_with_default(rhs))
    IN  AfterRhs(pop_as_numeric_with_default(e))

\* Faulty variant of the result: the operands taken in the other order.
ArithmeticSwapped(opcode, lhs, rhs) ==
    CASE opcode = "Add" -> IF FitsU32(rhs + lhs) THEN rhs + lhs ELSE 0
      [] opcode = "Sub" -> IF rhs >= lhs THEN rhs - lhs ELSE 0
      [] opcode = "Mul" -> IF FitsU32(rhs * lhs) THEN rhs * lhs ELSE 0
      [] opcode = "Div" -> IF lhs # 0 THEN rhs \div lhs ELSE 0

\* u32 checked_add, checked_mul, checked_div with .unwrap_or(0), and
\* saturating_sub
Arithmetic(opcode, lhs, rhs) ==
    CASE opcode = "Add" -> IF FitsU32(lhs + rhs) THEN lhs + rhs ELSE 0
      [] opcode = "Sub" -> IF lhs >= rhs THEN lhs - rhs ELSE 0
      [] opcode = "Mul" -> IF FitsU32(lhs * rhs) THEN lhs * rhs ELSE 0
      [] opcode = "Div" -> IF rhs # 0 THEN lhs \div rhs ELSE 0

EvalArithmetic(opcode, e) ==
    LET AfterPush(rhs, lhs, push) ==
            IF ~rhs.returns THEN Body(FALSE, rhs, EMPTY)
            ELSE IF ~lhs.returns THEN Body(FALSE, lhs, EMPTY)
            ELSE Body(TRUE, push,
                      ArtifactPush(ArtifactPush(rhs.artifact, lhs.artifact),
                                   push.artifact))
        AfterResult(rhs, lhs, result) ==
            AfterPush(rhs, lhs,
                      Do(lhs, StackPush(Literal(from_number(result)))))
        AfterLhs(rhs, lhs) ==
            AfterResult(rhs, lhs, Arithmetic(opcode, lhs.res, rhs.res))
        AfterRhs(rhs) == AfterLhs(rhs, pop_as_numeric_with_default(rhs))
    IN  AfterRhs(pop_as_numeric_with_default(e))

EvalSet(e) ==
    LET AfterSet(address, literal, artifact, set) ==
            IF ~address.returns THEN Body(FALSE, address, EMPTY)
            ELSE IF ~literal.returns THEN Body(FALSE, literal, EMPTY)
            ELSE IF address.res.ok /\ literal.res.ok
            THEN Body(TRUE, set, ArtifactPush(artifact, set.artifact))
            ELSE Body(TRUE, literal, artifact)
        AfterLiteral(address, literal) ==
            AfterSet(address, literal,
                     ArtifactPush(address.artifact, literal.artifact),
                     Do(literal, GridSet(address.res.val, literal.res.val)))
        AfterAddress(address) == AfterLiteral(address, pop_literal(address))
    IN  AfterAddress(pop_address(e))

EvalPrt(e) ==
    LET AfterPrint(operand, print) ==
            IF operand.res.ok
            THEN Body(TRUE, print,
                      ArtifactPush(operand.artifact, print.artifact))
            ELSE Body(TRUE, operand, operand.artifact)
        AfterOperand(operand) ==
            AfterPrint(operand,
                       Do(operand,
                          ConsolePrint(OperandAsCell(operand.res.val))))
    IN  AfterOperand(pop_operand(e))

\* the first `match self`
EvalBody(opcode, e) ==
    CASE opcode \in {"Nop", "Dbg"} -> Body(TRUE, e, EMPTY)
      [] opcode \in {"Gou", "Gor", "God", "Gol"} -> EvalGo(opcode, e)
      [] opcode = "Jmp" -> EvalJmp(e)
      [] opcode \in {"Igu", "Igr", "Igd", "Igl"} -> EvalIfGo(opcode, e)
      [] opcode = "Ijp" -> EvalIjp(e)
      [] opcode \in {"Equ", "Neq"} -> EvalEqu(opcode, e)
      [] opcode \in {"Grt", "Lst", "Grq", "Lsq"} -> EvalCompare(opcode, e)
      [] opcode \in {"Add", "Sub", "Mul", "Div"} -> EvalArithmetic(opcode, e)
      [] opcode = "Set" -> EvalSet(e)
      [] opcode = "Prt" -> EvalPrt(e)

\* Faulty variant of the opcodes without the implicit HeadStep: Nop among
\* them.
NoTrailingStepNorNop == {"Jmp", "Hlt", "Ijp", "Nop"}

\* Faulty variant of the opcodes without the implicit HeadStep: Jmp not
\* among them.
NoTrailingStepButJmp == {"Hlt", "Ijp"}

\* the opcodes not followed by the implicit HeadStep
NoTrailingStep == {"Jmp", "Hlt", "Ijp"}

\* The outcome of a call: "returned" with its Artifact, "panicked"
\* (Hlt is unimplemented!()) or "diverged" (operand resolution that never
\* returns); in the last two the caller never gets an Artifact.
Outcome(status, e, artifact) ==
    [status |-> status, frame |-> e.frame, acted |-> e.acted,
     artifact |-> artifact]

\* Opcode::evaluate
Evaluate(opcode, e) ==
    LET AfterStep(body, step) ==
            IF ~body.returns THEN Outcome("diverged", body, EMPTY)
            ELSE IF opcode \notin NoTrailingStep
            THEN Outcome("returned", step,
                         ArtifactPush(body.artifact, step.artifact))
            ELSE Outcome("returned", body, body.artifact)
        AfterBody(body) == AfterStep(body, Do(body, HeadStep))
    IN  IF opcode = "Hlt" THEN Outcome("panicked", e, EMPTY)
        ELSE AfterBody(EvalBody(opcode, e))

\* ------------------------------------------------------------------------
\* frame.rs : Frame::step
\* ------------------------------------------------------------------------
\* Faulty variant of the Word::Operand arm: the HeadStep acted before the
\* StackPush.
StepOperandStepFirst(operand, e) ==
    LET AfterPush(step, push) ==
            Outcome("returned", push, ArtifactPush(step.artifact, push.artifact))
        AfterStep(step) == AfterPush(step, Do(step, StackPush(operand)))
    IN  AfterStep(Do(e, HeadStep))

StepOperand(operand, e) ==
    LET AfterStep(push, step) ==
            Outcome("returned", step, ArtifactPush(push.artifact, step.artifact))
        AfterPush(push) == AfterStep(push, Do(push, HeadStep))
    IN  AfterPush(Do(e, StackPush(operand)))

\* Faulty variant of the empty-cell arm: nothing acted.
StepEmptyStays(e) == Outcome("returned", e, EMPTY)

StepEmpty(e) ==
    LET AfterStep(step) == Outcome("returned", step, step.artifact)
    IN  AfterStep(Do(e, HeadStep))

FrameStep(frame) ==
    LET e == [frame |-> frame, acted |-> <<>>]
        current_cell == GridGet(frame.grid, frame.head.position)
        Matched(word) ==
            IF word.word = "Opcode" THEN Evaluate(word.opcode, e)
            ELSE StepOperand(word.operand, e)
    IN  IF is_empty(current_cell) THEN StepEmpty(e)
        ELSE Matched(WordFromCell(current_cell))

\* Frame::act
FrameAct(frame, action) ==
    LET Acted(d) == Outcome("returned", d, d.artifact)
    IN  Acted(Do([frame |-> frame, acted |-> <<>>], action))

\* ------------------------------------------------------------------------
\* history.rs : History = [artifacts, cursor]
\* ------------------------------------------------------------------------
HistoryDefault == [artifacts |-> <<>>, cursor |-> 0]

\* Vec::truncate
Truncate(vec, len) == IF len < Len(vec) THEN SubSeq(vec, 1, len) ELSE vec

\* Faulty variant of History::append: the redo branch is not truncated.
HistoryAppendKeepsRedo(history, artifact) ==
    IF Len(artifact) = 0 THEN history
    ELSE [artifacts |-> Append(history.artifacts, artifact),
          cursor |-> history.cursor + 1]

\* Faulty variant of History::append: the undone entries are dropped before
\* the Artifact is looked at.
HistoryAppendTruncatesFirst(history, artifact) ==
    IF Len(artifact) = 0
    THEN [history EXCEPT !.artifacts = Truncate(@, history.cursor)]
    ELSE [artifacts |-> Append(Truncate(history.artifacts, history.cursor),
                               artifact),
          cursor |-> history.cursor + 1]

\* History::append
HistoryAppend(history, artifact) ==
    IF Len(artifact) = 0 THEN history
    ELSE [artifacts |-> Append(Truncate(history.artifacts, history.cursor),
                               artifact),
          cursor |-> history.cursor + 1]

\* Faulty variant of History::merge_with_last: a new entry every time.
HistoryMergeAppends(history, artifact) == HistoryAppend(history, artifact)

\* History::merge_with_last
HistoryMergeWithLast(history, artifact) ==
    IF Len(artifact) = 0 THEN history
    ELSE IF Len(history.artifacts) > 0
    THEN [history EXCEPT !.artifacts[Len(history.artifacts)] =
                            ArtifactPush(@, artifact)]
    ELSE HistoryAppend(history, artifact)

\* Faulty variant of History::undo: the artifact is undone but the cursor
\* stays where it was.
HistoryUndoKeepsCursor(history, frame) ==
    LET e == [frame |-> frame, acted |-> <<>>]
        artifact == history.artifacts[history.cursor]
        undone == ArtifactUndo(artifact, e)
    IN  IF history.cursor >= 1 /\ history.cursor <= Len(history.artifacts)
        THEN [history |-> history,
              frame |-> undone.frame, acted |-> undone.acted,
              artifact |-> artifact]
        ELSE [history |-> history, frame |-> frame, acted |-> <<>>,
              artifact |-> EMPTY]

\* History::undo : returns the history, the frame and the Artifact
HistoryUndo(history, frame) ==
    LET e == [frame |-> frame, acted |-> <<>>]
        last_artifact == history.cursor - 1
        artifact == history.artifacts[last_artifact + 1]
        undone == ArtifactUndo(artifact, e)
    IN  IF history.cursor >= 1 /\ last_artifact < Len(history.artifacts)
        THEN [history |-> [history EXCEPT !.cursor = last_artifact],
              frame |-> undone.frame, acted |-> undone.acted,
              artifact |-> artifact]
        ELSE [history |-> history, frame |-> frame, acted |-> <<>>,
              artifact |-> EMPTY]

\* Faulty variant of History::redo: the index saturates at the last entry,
\* so a redo at the end of the history redoes the last artifact again.
HistoryRedoSaturating(history, frame) ==
    LET e == [frame |-> frame, acted |-> <<>>]
        len == Len(history.artifacts)
        index == IF history.cursor < len THEN history.cursor + 1 ELSE len
        artifact == history.artifacts[index]
        redone == ArtifactRedo(artifact, e)
    IN  IF len > 0
        THEN [history |-> [history EXCEPT !.cursor = index],
              frame |-> redone.frame, acted |-> redone.acted,
              artifact |-> artifact]
        ELSE [history |-> history, frame |-> frame, acted |-> <<>>,
              artifact |-> EMPTY]

\* History::redo
HistoryRedo(history, frame) ==
    LET e == [frame |-> frame, acted |-> <<>>]
        artifact == history.artifacts[history.cursor + 1]
        redone == ArtifactRedo(artifact, e)
    IN  IF history.cursor < Len(history.artifacts)
        THEN [history |-> [history EXCEPT !.cursor = history.cursor + 1],
              frame |-> redone.frame, acted |-> redone.acted,
              artifact |-> artifact]
        ELSE [history |-> history, frame |-> frame, acted |-> <<>>,
              artifact |-> EMPTY]

\* ------------------------------------------------------------------------
\* State: the Frame and the History of one editing session (editor.rs),
\* and what the last call observed.
\* ------------------------------------------------------------------------
VARIABLES
    grid,       \* Frame.grid
    head,       \* Frame.head
    stack,      \* Frame.stack
    console,    \* Frame.console.buffer
    artifacts,  \* History.artifacts
    cursor,     \* History.cursor
    status,     \* "running", or how the process ended: "panicked", "diverged"
    last,       \* the last call made: its name, argument and history method
    pre,        \* the Frame and History right before the last call
    ret,        \* the Artifact the last call returned
    acted,      \* the actions the last call acted on the Frame, in order
    base,       \* the Frame the session started from
    merges,     \* number of merge_with_last calls made
    ops,        \* number of calls made
    cell,       \* the Cell under edit
    point,      \* the Position under computation
    out,        \* the value the last call on a Cell or a Position returned
    mutex,      \* who holds the Mutex of the Frame: "free", "editor", "reader"
    todo,       \* the actions the running operation has still to act
    seen        \* what the reader last read under the Mutex

vars == <<grid, head, stack, console, artifacts, cursor, status,
          last, pre, ret, acted, base, merges, ops, cell, point, out,
          mutex, todo, seen>>

Frame == [grid |-> grid, head |-> head, stack |-> stack, console |-> console]

History == [artifacts |-> artifacts, cursor |-> cursor]

\* Bounds of the exploration
MaxOps == 3

\* The frames a session starts from: Frame::default(), or a loaded program
\* (Frame is Deserialize).
Program(cells) ==
    [p \in {Pos(i - 1, 0) : i \in 1..Len(cells)} |-> cells[p.x + 1]]

FrameWith(g, h, s) == [grid |-> g, head |-> h, stack |-> s, console |-> <<>>]

FrameDefault == FrameWith(EmptyGrid, HeadDefault, <<>>)

InitFrames ==
    { FrameDefault,
      FrameWith(Program(<<<<49>>, OpcodeName.Add>>), HeadDefault, <<>>),
      FrameWith(Program(<<OpcodeName.Jmp>>), HeadDefault, <<>>),
      FrameWith(Program(<<OpcodeName.Prt>>), HeadDefault, <<Literal(<<55>>)>>) }

\* The actions a caller acts on the Frame
ActionInputs ==
    { GridSet(ORIGIN, <<55>>), GridSet(ORIGIN, EmptyCell),
      GridSet(Pos(1, 0), OpcodeName.Add),
      StackPush(Literal(<<55>>)), StackPop,
      HeadMoveTo(Pos(MAX_NUMERIC, MAX_NUMERIC)),
      HeadDirectTo("Up"), HeadDirectTo("Left"), HeadDirectTo("Down"), HeadStep,
      ConsolePrint(<<55>>) }

InitFrom(frames) ==
    /\ \E f \in frames :
          /\ grid = f.grid /\ head = f.head /\ stack = f.stack
          /\ console = f.console
          /\ base = f
          /\ pre = [frame |-> f, history |-> HistoryDefault]
    /\ artifacts = HistoryDefault.artifacts
    /\ cursor = HistoryDefault.cursor
    /\ status = "running"
    /\ last = [op |-> "init", arg |-> None, into |-> "none"]
    /\ ret = EMPTY
    /\ acted = <<>>
    /\ merges = 0
    /\ ops = 0
    /\ cell = EmptyCell
    /\ point = ORIGIN
    /\ out = None
    /\ mutex = "free"
    /\ todo = <<>>
    /\ seen = None

Init == InitFrom(InitFrames)

\* One call: the Frame and History become f and h
Commit(f, h, st, l, r, a) ==
    /\ grid' = f.grid /\ head' = f.head /\ stack' = f.stack
    /\ console' = f.console
    /\ artifacts' = h.artifacts /\ cursor' = h.cursor
    /\ status' = st
    /\ last' = l
    /\ pre' = [frame |-> Frame, history |-> History]
    /\ ret' = r
    /\ acted' = a
    /\ merges' = IF l.into = "merge" THEN merges + 1 ELSE merges
    /\ ops' = ops + 1
    /\ UNCHANGED <<base, cell, point, out, mutex, todo, seen>>

Call(op, arg, into) == [op |-> op, arg |-> arg, into |-> into]

\* frame.act(action), then history.append(artifact)
ActAppend(action) ==
    LET Committed(o) ==
            Commit(o.frame, HistoryAppend(History, o.artifact), "running",
                   Call("act", action, "append"), o.artifact, o.acted)
    IN  Committed(FrameAct(Frame, action))

\* frame.act(action), then history.merge_with_last(artifact)
ActMerge(action) ==
    LET Committed(o) ==
            Commit(o.frame, HistoryMergeWithLast(History, o.artifact), "running",
                   Call("act", action, "merge"), o.artifact, o.acted)
    IN  Committed(FrameAct(Frame, action))

\* frame.step(), then history.append(artifact) (editor.rs); a step that
\* panics or never returns ends the process
StepAppend ==
    LET Committed(o) ==
            IF o.status = "returned"
            THEN Commit(o.frame, HistoryAppend(History, o.artifact), "running",
                        Call("step", None, "append"), o.artifact, o.acted)
            ELSE Commit(o.frame, History, o.status,
                        Call("step", None, "none"), EMPTY, o.acted)
    IN  Committed(FrameStep(Frame))

\* history.undo(frame)
Undo ==
    LET Committed(u) ==
            Commit(u.frame, u.history, "running",
                   Call("undo", None, "none"), u.artifact, u.acted)
    IN  Committed(HistoryUndo(History, Frame))

\* history.redo(frame)
Redo ==
    LET Committed(r) ==
            Commit(r.frame, r.history, "running",
                   Call("redo", None, "none"), r.artifact, r.acted)
    IN  Committed(HistoryRedo(History, Frame))

\* the process is alive and has made fewer than n calls
Budget(n) == status = "running" /\ ops < n

Next ==
    \/ Budget(MaxOps) /\ \E action \in ActionInputs : ActAppend(action)
    \/ Budget(MaxOps) /\ \E action \in ActionInputs : ActMerge(action)
    \/ Budget(MaxOps) /\ StepAppend
    \/ Budget(MaxOps) /\ Undo
    \/ Budget(MaxOps) /\ Redo

Spec == Init /\ [][Next]_vars

\* ------------------------------------------------------------------------
\* Stepping sessions: a program cell under the Head, operands on the Stack
\* and data cells, then step / undo / redo.
\* ------------------------------------------------------------------------
MaxStepOps == 2

\* B,B and C,C hold data; A,A or C,B holds the word under the Head
DataB == Pos(1, 1)

DataC == Pos(2, 2)

StepHeads ==
    {[position |-> ORIGIN, direction |-> d] : d \in Direction}
        \cup {[position |-> Pos(2, 1), direction |-> "Right"]}

\* "", "7", "@BB", "&BB", "&AA" and every opcode name
StepWords ==
    {EmptyCell, <<55>>, <<64, 66, 66>>, <<38, 66, 66>>, <<38, 65, 65>>}
        \cup {OpcodeName[o] : o \in Opcode}

\* a chain of four pointer cells ending on a literal:
\* B,B "&CC", C,C "&DD", D,D "&EE", E,E "&FF", F,F "5"
StepChain ==
    [p \in {Pos(i, i) : i \in 1..5} |->
        IF p.x = 5 THEN <<53>> ELSE <<POINTER_PREFIX, 66 + p.x, 66 + p.x>>]

\* B,B: "", "5", "@CC", "&BB" (points to itself), "&CC" ; C,C: "0" ;
\* or the chain
StepData ==
    {EmptyGrid, StepChain} \cup
    {[p \in {DataB, DataC} |-> IF p = DataB THEN b ELSE <<48>>] :
        b \in {<<53>>, <<64, 67, 67>>, <<38, 66, 66>>, <<38, 67, 67>>}}

\* "0", "1", "7", "999" (the largest number a Cell holds), "x", @BB, &BB
StepOperands ==
    {Literal(<<48>>), Literal(<<49>>), Literal(<<55>>), Literal(<<57, 57, 57>>),
     Literal(<<120>>), Address(DataB), Pointer(DataB)}

StepStacks ==
    {<<>>} \cup {<<a>> : a \in StepOperands}
           \cup {<<a, b>> : a \in StepOperands, b \in StepOperands}

StepFrames ==
    {FrameWith(GridSetCell(data, h.position, w), h, s) :
        data \in StepData, h \in StepHeads, w \in StepWords, s \in StepStacks}

InitStep == InitFrom(StepFrames)

NextStep ==
    \/ Budget(MaxStepOps) /\ StepAppend
    \/ Budget(MaxStepOps) /\ Undo
    \/ Budget(MaxStepOps) /\ Redo

SpecStep == InitStep /\ [][NextStep]_vars

\* ------------------------------------------------------------------------
\* Resolving sessions: chains of pointer cells on the diagonal B,B .. F,F,
\* a word that resolves its operands under the Head, Pointers and
\* Addresses on the Stack, then step / undo / redo.
\* ------------------------------------------------------------------------
Diagonal == {Pos(i, i) : i \in 1..5}

\* "&" or "@" followed by the next position of the diagonal
NextOnDiagonal(prefix, p) == <<prefix, 66 + p.x, 66 + p.x>>

\* pointer cells up to `last_pointer`, then `then_cell`, then `end_cell`
ChainCell(last_pointer, then_cell, end_cell, p) ==
    IF p.x <= last_pointer THEN NextOnDiagonal(POINTER_PREFIX, p)
    ELSE IF p.x = last_pointer + 1 THEN then_cell
    ELSE IF p.x = last_pointer + 2 THEN end_cell
    ELSE EmptyCell

\* the grid holds the non-empty cells only
ChainGrid(last_pointer, then_cell, end_cell) ==
    [p \in {q \in Diagonal :
               ~is_empty(ChainCell(last_pointer, then_cell, end_cell, q))} |->
        ChainCell(last_pointer, then_cell, end_cell, p)]

\* B,B "&CC", C,C "&DD", then D,D "5" | D,D "@EE", E,E "&FF" | D,D "@EE",
\* E,E "@FF" ; B,B "&CC", then C,C "@DD", D,D "" ; and the chain of four
ResolveGrids ==
    { ChainGrid(2, <<53>>, EmptyCell),
      ChainGrid(2, <<ADDRESS_PREFIX, 69, 69>>, <<POINTER_PREFIX, 70, 70>>),
      ChainGrid(2, <<ADDRESS_PREFIX, 69, 69>>, <<ADDRESS_PREFIX, 70, 70>>),
      ChainGrid(1, <<ADDRESS_PREFIX, 68, 68>>, EmptyCell),
      StepChain }

ResolveWords == {OpcodeName.Set, OpcodeName.Equ, OpcodeName.Jmp}

ResolveOperands ==
    {Pointer(p) : p \in Diagonal} \cup {Address(p) : p \in Diagonal}
        \cup {Literal(<<53>>)}

ResolveFrames ==
    {FrameWith(GridSetCell(g, ORIGIN, w), HeadDefault, <<a, b>>) :
        g \in {GridSetCell(c, Pos(5, 5), EmptyCell) : c \in ResolveGrids}
              \cup ResolveGrids,
        w \in ResolveWords, a \in ResolveOperands, b \in ResolveOperands}

InitResolve == InitFrom(ResolveFrames)

SpecResolve == InitResolve /\ [][NextStep]_vars

\* ------------------------------------------------------------------------
\* Editing one Cell: Cell::new, new_trim, set, insert_text (insert_at) and
\* delete_char_range, on texts typed or pasted into the Cell.
\* ------------------------------------------------------------------------
MaxCellOps == 3

\* "", "1", "100", "ABCD", "ab", the joined pictographs U+1F468 U+200D
\* U+1F469 (one grapheme of three chars and eleven bytes), and U+00E9
CellTexts ==
    {<<>>, <<49>>, <<49, 48, 48>>, <<65, 66, 67, 68>>, <<97, 98>>,
     <<128104, 8205, 128105>>, <<233>>}

\* The char ranges start..end the callers pass
CharRanges == {r \in (0..3) \X (0..3) : r[1] <= r[2]}

\* Cell::default() in a fresh session
InitCell == InitFrom({FrameDefault})

CellCall(op, arg, o) ==
    /\ cell' = o.cell
    /\ out' = o.returned
    /\ status' = IF o.panicked THEN "panicked" ELSE "running"
    /\ last' = [op |-> op, arg |-> arg, into |-> "none", cell |-> cell]
    /\ ops' = ops + 1
    /\ UNCHANGED <<grid, head, stack, console, artifacts, cursor,
                   pre, ret, acted, base, merges, point, mutex, todo, seen>>

EditNew(string) ==
    LET Made(made) ==
            CellCall("new", string,
                     IF made.ok THEN CellOutcome(made.val, made)
                     ELSE CellOutcome(cell, Err))
    IN  Made(CellNew(string))

EditNewTrim(string) ==
    LET Made(made) == CellCall("new_trim", string, CellOutcome(made, Ok(made)))
    IN  Made(new_trim(string))

EditSet(content) == CellCall("set", content, CellSet(cell, content))

EditInsertText(text, char_index) ==
    CellCall("insert_text", [text |-> text, char_index |-> char_index],
             insert_text(cell, text, char_index))

EditDeleteCharRange(char_range) ==
    CellCall("delete_char_range", char_range,
             delete_char_range(cell, char_range[1], char_range[2]))

NextCell ==
    \/ Budget(MaxCellOps) /\ \E string \in CellTexts : EditNew(string)
    \/ Budget(MaxCellOps) /\ \E string \in CellTexts : EditNewTrim(string)
    \/ Budget(MaxCellOps) /\ \E content \in CellTexts : EditSet(content)
    \/ Budget(MaxCellOps)
       /\ \E text \in CellTexts, char_index \in 0..3 :
             EditInsertText(text, char_index)
    \/ Budget(MaxCellOps)
       /\ \E char_range \in CharRanges : EditDeleteCharRange(char_range)

SpecCell == InitCell /\ [][NextCell]_vars

\* ------------------------------------------------------------------------
\* Computing with coordinates: the codec of PositionAxis, its checked
\* arithmetic, and Position::checked_step from a Position the caller keeps.
\* ------------------------------------------------------------------------
MaxPositionOps == 2

\* u32 coordinates, in and above the range of an axis
Coordinates == 0..70

\* chars, in and around the alphabet of an axis
Chars == 32..127

\* u32 offsets: none, short, the width of the grid, and beyond it
Offsets == {0, 1, 2, 3, 63, 64, 1000}

\* "AA", "//", "/A", "9C"
PositionTexts == {<<65, 65>>, <<47, 47>>, <<47, 65>>, <<57, 67>>}

\* Position::ORIGIN in a fresh session
InitPosition == InitFrom({FrameDefault})

PositionCall(op, arg, returned, kept) ==
    /\ out' = returned
    /\ point' = kept
    /\ last' = [op |-> op, arg |-> arg, into |-> "none", point |-> point]
    /\ ops' = ops + 1
    /\ UNCHANGED <<grid, head, stack, console, artifacts, cursor, status,
                   pre, ret, acted, base, merges, cell, mutex, todo, seen>>

Encode(coordinate) ==
    PositionCall("numeric_to_textual", coordinate,
                 numeric_to_textual(coordinate), point)

Decode(coordinate) ==
    PositionCall("textual_to_numeric", coordinate,
                 textual_to_numeric(coordinate), point)

\* self.x.checked_increment(value), as Position::checked_increment_x calls it
Increment(value) ==
    PositionCall("checked_increment", value,
                 checked_increment(point.x, value), point)

Decrement(value) ==
    PositionCall("checked_decrement", value,
                 checked_decrement(point.x, value), point)

\* position = position.checked_step(direction, offset)?
CheckedStep(direction, offset) ==
    LET Kept(stepped) ==
            PositionCall("checked_step",
                         [direction |-> direction, offset |-> offset],
                         stepped, IF stepped.ok THEN stepped.val ELSE point)
    IN  Kept(checked_step(point, direction, offset))

\* position = Position::try_from(string)?
MoveTo(string) ==
    LET Kept(parsed) ==
            PositionCall("try_from", string, parsed,
                         IF parsed.ok THEN parsed.val ELSE point)
    IN  Kept(PositionTryFrom(string))

NextPosition ==
    \/ Budget(MaxPositionOps) /\ \E coordinate \in Coordinates : Encode(coordinate)
    \/ Budget(MaxPositionOps) /\ \E coordinate \in Chars : Decode(coordinate)
    \/ Budget(MaxPositionOps) /\ \E value \in Offsets : Increment(value)
    \/ Budget(MaxPositionOps) /\ \E value \in Offsets : Decrement(value)
    \/ Budget(MaxPositionOps)
       /\ \E direction \in Direction, offset \in Offsets :
             CheckedStep(direction, offset)
    \/ Budget(MaxPositionOps) /\ \E string \in PositionTexts : MoveTo(string)

SpecPosition == InitPosition /\ [][NextPosition]_vars

\* ------------------------------------------------------------------------
\* Sessions on the History alone: what the editor hands to append and
\* merge_with_last, and Artifact::EMPTY, what a step of Ijp on an empty
\* Stack returns.
\* ------------------------------------------------------------------------
\* history.append(Artifact::EMPTY)
AppendEmpty ==
    Commit(Frame, HistoryAppend(History, EMPTY), "running",
           Call("none", None, "append"), EMPTY, <<>>)

\* history.merge_with_last(Artifact::EMPTY)
MergeEmpty ==
    Commit(Frame, HistoryMergeWithLast(History, EMPTY), "running",
           Call("none", None, "merge"), EMPTY, <<>>)

InitHistory == InitFrom({FrameDefault})

NextHistory ==
    \/ Budget(MaxOps) /\ \E action \in ActionInputs : ActAppend(action)
    \/ Budget(MaxOps) /\ \E action \in ActionInputs : ActMerge(action)
    \/ Budget(MaxOps) /\ AppendEmpty
    \/ Budget(MaxOps) /\ MergeEmpty
    \/ Budget(MaxOps) /\ Undo
    \/ Budget(MaxOps) /\ Redo

SpecHistory == InitHistory /\ [][NextHistory]_vars

\* ------------------------------------------------------------------------
\* The Frame behind its Mutex (Arc<Mutex<Frame>>): the editor locks it for
\* a step, an undo or a redo, which act their actions on the Frame one
\* after the other; a widget reads the Frame when try_lock gives the guard.
\* ------------------------------------------------------------------------
MaxLockOps == 3

\* Faulty variant of the Mutex: the guard is given while another is held.
AcquireUnguarded(who) == mutex' = who

\* Mutex::lock and Mutex::try_lock, when the guard is given
Acquire(who) == mutex = "free" /\ mutex' = who

\* the guard is dropped
Release(who) == mutex = who /\ mutex' = "free"

\* what frame_guard.step(), history.undo(frame) and history.redo(frame) do
\* under the guard: the actions they act, the Artifact and the History
Plan(op) ==
    LET Stepped_(o) ==
            [status |-> IF o.status = "returned" THEN "running" ELSE o.status,
             acted |-> o.acted, artifact |-> o.artifact,
             history |-> IF o.status = "returned"
                         THEN HistoryAppend(History, o.artifact) ELSE History]
        Moved_(u) ==
            [status |-> "running", acted |-> u.acted, artifact |-> u.artifact,
             history |-> u.history]
    IN  CASE op = "step" -> Stepped_(FrameStep(Frame))
          [] op = "undo" -> Moved_(HistoryUndo(History, Frame))
          [] op = "redo" -> Moved_(HistoryRedo(History, Frame))

\* self.frame.lock().unwrap(), and the call on the guard begins
EditorLock(op) ==
    LET Begun(plan) ==
            /\ Acquire("editor")
            /\ status' = plan.status
            /\ todo' = plan.acted
            /\ ret' = plan.artifact
            /\ last' = [op |-> op, arg |-> None, into |-> "none",
                        history |-> plan.history]
            /\ pre' = [frame |-> Frame, history |-> History]
            /\ acted' = <<>>
            /\ ops' = ops + 1
            /\ UNCHANGED <<grid, head, stack, console, artifacts, cursor,
                           base, merges, cell, point, out, seen>>
    IN  Begun(Plan(op))

\* frame.act(action), for the next action of the running call
EditorAct ==
    LET Acted(r) ==
            /\ grid' = r.frame.grid /\ head' = r.frame.head
            /\ stack' = r.frame.stack /\ console' = r.frame.console
            /\ acted' = r.acted
            /\ todo' = Tail(todo)
            /\ UNCHANGED <<artifacts, cursor, status, last, pre, ret, base,
                           merges, ops, cell, point, out, mutex, seen>>
    IN  /\ mutex = "editor" /\ status = "running" /\ todo # <<>>
        /\ Acted(Do([frame |-> Frame, acted |-> acted], todo[1]))

\* the call returns, the History is updated and the guard is dropped
EditorUnlock ==
    /\ status = "running" /\ todo = <<>>
    /\ Release("editor")
    /\ artifacts' = last.history.artifacts
    /\ cursor' = last.history.cursor
    /\ UNCHANGED <<grid, head, stack, console, status, last, pre, ret, acted,
                   base, merges, ops, cell, point, out, todo, seen>>

\* self.frame.try_lock() gives the guard
ReaderTryLock ==
    /\ Acquire("reader")
    /\ UNCHANGED <<grid, head, stack, console, artifacts, cursor, status,
                   last, pre, ret, acted, base, merges, ops, cell, point, out,
                   todo, seen>>

\* self.frame.try_lock() is refused: the widget reads nothing
ReaderMiss ==
    /\ mutex = "editor"
    /\ seen' = None
    /\ UNCHANGED <<grid, head, stack, console, artifacts, cursor, status,
                   last, pre, ret, acted, base, merges, ops, cell, point, out,
                   mutex, todo>>

\* the widget reads the Frame through the guard and drops it; `before` and
\* `after` count the actions the running call had acted and had still to act
ReaderRead ==
    /\ Release("reader")
    /\ seen' = [frame |-> Frame, before |-> Len(acted), after |-> Len(todo)]
    /\ UNCHANGED <<grid, head, stack, console, artifacts, cursor, status,
                   last, pre, ret, acted, base, merges, ops, cell, point, out,
                   todo>>

InitLock == InitFrom(InitFrames)

NextLock ==
    \/ Budget(MaxLockOps) /\ \E op \in {"step", "undo", "redo"} : EditorLock(op)
    \/ EditorAct
    \/ EditorUnlock
    \/ ReaderTryLock
    \/ ReaderMiss
    \/ ReaderRead

SpecLock == InitLock /\ [][NextLock]_vars

\* ------------------------------------------------------------------------
\* Properties
\* ------------------------------------------------------------------------
\* Grid, Head and Stack agree (the Console is not compared)
SameState(f1, f2) ==
    f1.grid = f2.grid /\ f1.head = f2.head /\ f1.stack = f2.stack

Fresh(frame) == [frame |-> frame, acted |-> <<>>]

HasUndo(pair) == pair.undo # None

HasRedo(pair) == pair.redo # None

\* the undo actions of an Artifact, last recorded first
UndoActions(artifact) ==
    LET present == SelectSeq(artifact, HasUndo)
    IN  [i \in 1..Len(present) |-> present[Len(present) + 1 - i].undo]

\* the redo actions of an Artifact, in recording order
RedoActions(artifact) ==
    LET present == SelectSeq(artifact, HasRedo)
    IN  [i \in 1..Len(present) |-> present[i].redo]

RECURSIVE UndoTimes(_, _, _)
UndoTimes(n, history, frame) ==
    IF n = 0 THEN [history |-> history, frame |-> frame]
    ELSE LET u == HistoryUndo(history, frame)
         IN  UndoTimes(n - 1, u.history, u.frame)

RECURSIVE RedoTimes(_, _, _)
RedoTimes(n, history, frame) ==
    IF n = 0 THEN [history |-> history, frame |-> frame]
    ELSE LET r == HistoryRedo(history, frame)
         IN  RedoTimes(n - 1, r.history, r.frame)

\* the frame obtained from `frame` by redoing the artifacts in order
RECURSIVE Replay(_, _)
Replay(frame, arts) ==
    IF Len(arts) = 0 THEN frame
    ELSE Replay(ArtifactRedo(Head(arts), Fresh(frame)).frame, Tail(arts))

Appended == last.op \in {"act", "step"} /\ last.into = "append" /\ ret # EMPTY

Merged == last.op = "act" /\ last.into = "merge" /\ ret # EMPTY

\* C1. History reciprocity: when the n artifacts of the History were all
\* produced by acting on the Frame and appended in order (nothing merged,
\* nothing undone), n undos followed by n redos give back the same Grid,
\* Head and Stack, with the cursor at n again.
C1_Reciprocity ==
    (status = "running" /\ merges = 0 /\ cursor = Len(artifacts)) =>
        LET n == Len(artifacts)
            u == UndoTimes(n, History, Frame)
            r == RedoTimes(n, u.history, u.frame)
        IN  /\ u.history.cursor = 0
            /\ SameState(r.frame, Frame)
            /\ r.history.cursor = n
            /\ r.history.artifacts = artifacts

\* two or more appended artifacts whose undo really changes the Frame
C1_Witness ==
    /\ status = "running" /\ merges = 0
    /\ cursor = Len(artifacts) /\ Len(artifacts) >= 2
    /\ ~SameState(UndoTimes(Len(artifacts), History, Frame).frame, Frame)
    /\ SameState(UndoTimes(Len(artifacts), History, Frame).frame, base)

\* C2. Step reversibility: after a step() that returned, acting the undo
\* actions of the returned Artifact, last recorded first, gives back the
\* Grid, Head and Stack of before the step.
C2_StepReversible ==
    (last.op = "step" /\ status = "running") =>
        SameState(ArtifactUndo(ret, Fresh(Frame)).frame, pre.frame)

\* a step that evaluated an opcode on a short stack: one operand popped,
\* the other defaulted, a result pushed
C2_Witness ==
    /\ last.op = "step" /\ status = "running"
    /\ GridGet(pre.frame.grid, pre.frame.head.position) = OpcodeName.Sub
    /\ Len(pre.frame.stack) = 1
    /\ Len(ret) = 3
    /\ ~SameState(Frame, pre.frame)

\* C3. History cursor invariant: 0 <= cursor <= artifacts.len(), and the
\* artifacts before the cursor are exactly those whose effects are applied
\* to the Frame: redoing them in order on the starting Frame gives the
\* current Grid, Head and Stack.
C3_CursorInvariant ==
    /\ cursor >= 0 /\ cursor <= Len(artifacts)
    /\ status = "running" =>
          SameState(Replay(base, SubSeq(artifacts, 1, cursor)), Frame)

\* C4. Append discards the redo branch: after append of a non-empty
\* artifact at cursor c, the list is the old artifacts[0..c] followed by
\* the artifact, the cursor is c + 1 = artifacts.len(), and redo is a no-op.
C4_AppendDiscardsRedo ==
    Appended =>
        /\ artifacts = Append(SubSeq(pre.history.artifacts, 1, pre.history.cursor),
                              ret)
        /\ cursor = pre.history.cursor + 1
        /\ cursor = Len(artifacts)
        /\ LET r == HistoryRedo(History, Frame)
           IN  r.artifact = EMPTY /\ r.frame = Frame /\ r.history = History

\* an append made while an undone artifact was waiting to be redone
C4_Witness ==
    /\ Appended
    /\ pre.history.cursor < Len(pre.history.artifacts)
    /\ Len(artifacts) = pre.history.cursor + 1

\* C5. Undo and redo move the cursor by exactly one entry: undo with
\* cursor > 0 undoes artifacts[cursor-1] and returns it, redo with
\* cursor < len redoes artifacts[cursor] and returns it; the list is
\* unchanged.
C5_UndoRedoOneEntry ==
    /\ (last.op = "undo" /\ pre.history.cursor > 0) =>
          /\ cursor = pre.history.cursor - 1
          /\ artifacts = pre.history.artifacts
          /\ ret = pre.history.artifacts[pre.history.cursor]
          /\ Frame = ArtifactUndo(ret, Fresh(pre.frame)).frame
    /\ (last.op = "redo" /\ pre.history.cursor < Len(pre.history.artifacts)) =>
          /\ cursor = pre.history.cursor + 1
          /\ artifacts = pre.history.artifacts
          /\ ret = pre.history.artifacts[pre.history.cursor + 1]
          /\ Frame = ArtifactRedo(ret, Fresh(pre.frame)).frame

\* a redo, after an undo, that changes the Frame back
C5_Witness ==
    /\ last.op = "redo" /\ pre.history.cursor = 0
    /\ Len(artifacts) = 1 /\ cursor = 1
    /\ ~SameState(Frame, pre.frame)

\* C6. merge_with_last of a non-empty artifact: with at least one entry in
\* the History no entry is created, the cursor is unchanged and the last
\* entry becomes its old actions followed by the artifact's; with an empty
\* History the result is that of append (one entry, cursor 1).
C6_MergeWithLast ==
    Merged =>
        IF Len(pre.history.artifacts) > 0
        THEN /\ Len(artifacts) = Len(pre.history.artifacts)
             /\ cursor = pre.history.cursor
             /\ artifacts[Len(artifacts)] =
                    pre.history.artifacts[Len(artifacts)] \o ret
             /\ \A i \in 1..(Len(artifacts) - 1) :
                    artifacts[i] = pre.history.artifacts[i]
        ELSE /\ History = HistoryAppend(pre.history, ret)
             /\ artifacts = <<ret>>
             /\ cursor = 1

\* a merge into the second of two entries
C6_Witness ==
    /\ Merged
    /\ Len(pre.history.artifacts) = 2
    /\ Len(artifacts[2]) = 2

\* C7. Ordering inside a composite Artifact: undo acts the recorded undo
\* actions last recorded first, redo acts the recorded redo actions in
\* recording order, and a pair lacking the action is skipped.
C7_CompositeOrder ==
    /\ (last.op = "undo" /\ ret # EMPTY) => acted = UndoActions(ret)
    /\ (last.op = "redo" /\ ret # EMPTY) => acted = RedoActions(ret)

\* the undo of a composite of three pairs, one of them redo-only
C7_Witness ==
    /\ last.op = "undo"
    /\ Len(ret) = 3
    /\ Len(acted) = 2
    /\ acted[1] # acted[2]

\* C8. Undo at cursor 0 and redo at cursor = artifacts.len() change
\* nothing (Grid, Head, Stack, Console, artifact list, cursor) and return
\* an empty Artifact.
C8_NoOpAtEnds ==
    /\ (last.op = "undo" /\ pre.history.cursor = 0) =>
          Frame = pre.frame /\ History = pre.history /\ ret = EMPTY
    /\ (last.op = "redo" /\ pre.history.cursor = Len(pre.history.artifacts)) =>
          Frame = pre.frame /\ History = pre.history /\ ret = EMPTY

\* an undo at cursor 0 while the History holds an (undone) entry
C8_Witness ==
    /\ last.op = "undo" /\ pre.history.cursor = 0
    /\ Len(artifacts) > 0

Reversible == {"GridSet", "StackPush", "StackPop", "HeadMoveTo",
               "HeadDirectTo", "HeadStep"}

\* C9. Each primitive returns its own inverse: after act(a), for a among
\* GridSet, StackPush, StackPop on a non-empty stack, HeadMoveTo,
\* HeadDirectTo and HeadStep, acting the undo action of the returned
\* Artifact gives back the Grid, Head and Stack of before act(a).
C9_PrimitiveInverse ==
    (/\ last.op = "act"
     /\ last.arg.type \in Reversible
     /\ (last.arg.type = "StackPop" => Len(pre.frame.stack) > 0)) =>
        /\ Len(ret) = 1
        /\ ret[1].redo = last.arg
        /\ ret[1].undo # None
        /\ SameState(FrameActionAct(ret[1].undo, Frame).frame, pre.frame)
        /\ (last.arg.type = "GridSet" =>
              ret[1].undo = GridSet(last.arg.position,
                                    GridGet(pre.frame.grid, last.arg.position)))
        /\ (last.arg.type = "StackPop" =>
              ret[1].undo = StackPush(pre.frame.stack[Len(pre.frame.stack)]))
        /\ (last.arg.type = "HeadStep" =>
              ret[1].undo = HeadMoveTo(pre.frame.head.position))

\* a GridSet that erased a non-empty cell
C9_Witness ==
    /\ last.op = "act" /\ last.arg.type = "GridSet"
    /\ GridGet(pre.frame.grid, last.arg.position) # EmptyCell
    /\ GridGet(grid, last.arg.position) = EmptyCell

\* C10. Termination of operand resolution: whatever the grid holds,
\* resolving a popped operand returns, so no step() fails to run to
\* completion because of it.
C10_ResolutionTerminates == status # "diverged"

\* the word under the Head right before the last call
PreWord == GridGet(pre.frame.grid, pre.frame.head.position)

\* the last call was a step() that evaluated `opcode` and returned
Stepped(opcode) ==
    last.op = "step" /\ status = "running" /\ PreWord = OpcodeName[opcode]

\* the element of the Stack at `depth` from the top (0 is the top)
Peek(s, depth) == s[Len(s) - depth]

\* the number of consecutive pointer cells met from `position`, up to `fuel`
RECURSIVE ChainLength(_, _, _)
ChainLength(position, g, fuel) ==
    IF fuel = 0 \/ ~PointerFromCell(GridGet(g, position)).ok THEN 0
    ELSE 1 + ChainLength(PointerFromCell(GridGet(g, position)).val, g, fuel - 1)

\* the n-th cell fetched when following the pointers from `position`
RECURSIVE Fetched(_, _, _)
Fetched(n, position, g) ==
    IF n = 1 THEN GridGet(g, position)
    ELSE Fetched(n - 1, PointerFromCell(GridGet(g, position)).val, g)

\* C11. Pointer depth bound: when Set writes the literal of a Pointer whose
\* chain holds more than 3 consecutive pointer cells, the value written is
\* the cell fetched at depth 3, as it is; the cells further down the chain
\* are not read.
C11_PointerDepthBound ==
    (/\ Stepped("Set") /\ Len(pre.frame.stack) >= 2
     /\ Peek(pre.frame.stack, 0).kind = "Address"
     /\ Peek(pre.frame.stack, 1).kind = "Pointer"
     /\ ChainLength(Peek(pre.frame.stack, 1).position, pre.frame.grid,
                    MAX_RECURSION_DEPTH + 1) > MAX_RECURSION_DEPTH)
    => GridGet(grid, Peek(pre.frame.stack, 0).position)
         = Fetched(MAX_RECURSION_DEPTH, Peek(pre.frame.stack, 1).position,
                   pre.frame.grid)

\* the last call was frame.act(action)
ActedOn(action) == last.op = "act" /\ last.arg = action

\* the Head is on an edge cell and faces out of the grid
FacingOut(h) ==
    CASE h.direction = "Up"    -> h.position.y = MIN_NUMERIC
      [] h.direction = "Right" -> h.position.x = MAX_NUMERIC
      [] h.direction = "Down"  -> h.position.y = MAX_NUMERIC
      [] h.direction = "Left"  -> h.position.x = MIN_NUMERIC

\* C12. HeadStep at the grid boundary: acting HeadStep while the Head faces
\* out of the grid from an edge cell returns an Artifact and changes
\* nothing in the Frame, and acting the undo of that Artifact changes
\* nothing either.
C12_BoundaryStepNoOp ==
    (ActedOn(HeadStep) /\ FacingOut(pre.frame.head)) =>
        /\ status = "running"
        /\ Frame = pre.frame
        /\ ret # EMPTY
        /\ ArtifactUndo(ret, Fresh(Frame)).frame = Frame

\* HeadStep acted in the far corner, facing Down
C12_Witness ==
    /\ ActedOn(HeadStep) /\ FacingOut(pre.frame.head)
    /\ pre.frame.head = [position |-> Pos(MAX_NUMERIC, MAX_NUMERIC),
                         direction |-> "Down"]

InGrid(position) ==
    /\ position.x \in MIN_NUMERIC..MAX_NUMERIC
    /\ position.y \in MIN_NUMERIC..MAX_NUMERIC

Interior(position) ==
    /\ position.x \in (MIN_NUMERIC + 1)..(MAX_NUMERIC - 1)
    /\ position.y \in (MIN_NUMERIC + 1)..(MAX_NUMERIC - 1)

\* the cell next to `position` in `direction`
Neighbour(position, direction) ==
    CASE direction = "Up"    -> Pos(position.x, position.y - 1)
      [] direction = "Right" -> Pos(position.x + 1, position.y)
      [] direction = "Down"  -> Pos(position.x, position.y + 1)
      [] direction = "Left"  -> Pos(position.x - 1, position.y)

\* head.direct_to(direction); head.step()
StepIn(h, direction) == HeadStepped([h EXCEPT !.direction = direction])

\* C13. Head movement: the Head position is always inside the grid; a
\* HeadStep whose target is inside the grid moves the Head to the next cell
\* in its direction and keeps the direction; from an interior cell, a step
\* Right, Down, Left then Up comes back to the same position.
C13_HeadMovement ==
    /\ InGrid(head.position)
    /\ (ActedOn(HeadStep) /\ ~FacingOut(pre.frame.head)) =>
          /\ head.position = Neighbour(pre.frame.head.position,
                                       pre.frame.head.direction)
          /\ head.direction = pre.frame.head.direction
    /\ Interior(head.position) =>
          StepIn(StepIn(StepIn(StepIn(head, "Right"), "Down"), "Left"),
                 "Up").position = head.position

\* a HeadStep Down that brought the Head onto an interior cell
C13_Witness ==
    /\ ActedOn(HeadStep) /\ ~FacingOut(pre.frame.head)
    /\ pre.frame.head.direction = "Down"
    /\ head.position # pre.frame.head.position
    /\ Interior(head.position)

\* C14. Stack underflow on the primitive: StackPop acted on an empty Stack
\* leaves the Frame as it was and returns an Artifact holding the redo
\* only, whose undo changes nothing; after a StackPush, a StackPop takes
\* back the operand just pushed and leaves the Stack as it was before.
C14_StackUnderflow ==
    /\ (ActedOn(StackPop) /\ pre.frame.stack = <<>>) =>
          /\ status = "running"
          /\ Frame = pre.frame
          /\ ret = from_redo(StackPop)
          /\ UndoActions(ret) = <<>>
          /\ ArtifactUndo(ret, Fresh(Frame)).frame = Frame
    /\ (last.op = "act" /\ last.arg.type = "StackPush") =>
          /\ FrameActionAct(StackPop, Frame).frame.stack = pre.frame.stack
          /\ FrameActionAct(StackPop, Frame).artifact
               = from_redo_undo(StackPop, StackPush(last.arg.operand))

\* StackPop acted on an empty Stack, after other calls
C14_Witness ==
    /\ ActedOn(StackPop) /\ pre.frame.stack = <<>>
    /\ cursor >= 2

\* the last call was a step() that returned
StepReturned == last.op = "step" /\ status = "running"

\* the reciprocal pair of a HeadStep acted from `position`
StepPair(position) == from_redo_undo(HeadStep, HeadMoveTo(position))

\* C15, as stated. Step over an empty cell: the step acts exactly one
\* HeadStep, returns its single reciprocal pair, the Head advances one cell
\* in its direction, and Grid, Stack and direction are unchanged.
C15_StepOverEmptyAdvances ==
    (StepReturned /\ is_empty(PreWord)) =>
        /\ acted = <<HeadStep>>
        /\ ret = StepPair(pre.frame.head.position)
        /\ head.position = Neighbour(pre.frame.head.position,
                                     pre.frame.head.direction)
        /\ head.direction = pre.frame.head.direction
        /\ grid = pre.frame.grid /\ stack = pre.frame.stack

\* C15, amended. Step over an empty cell: the step acts exactly one
\* HeadStep and returns its single reciprocal pair; the Head advances one
\* cell in its direction when that cell is inside the grid and stays where
\* it is otherwise; Grid, Stack and direction are unchanged.
C15_StepOverEmpty ==
    (StepReturned /\ is_empty(PreWord)) =>
        /\ acted = <<HeadStep>>
        /\ ret = StepPair(pre.frame.head.position)
        /\ head.position =
             IF FacingOut(pre.frame.head) THEN pre.frame.head.position
             ELSE Neighbour(pre.frame.head.position, pre.frame.head.direction)
        /\ head.direction = pre.frame.head.direction
        /\ grid = pre.frame.grid /\ stack = pre.frame.stack

\* a step over an empty interior cell, with operands on the Stack
C15_Witness ==
    /\ StepReturned /\ is_empty(PreWord)
    /\ pre.frame.head.position = Pos(2, 1) /\ head.position = Pos(3, 1)
    /\ Len(stack) = 2

HeadSteps(actions) ==
    Cardinality({i \in 1..Len(actions) : actions[i] = HeadStep})

\* C17. Implicit trailing step: a step that evaluates an opcode other than
\* Jmp, Ijp and Hlt acts exactly one HeadStep, after every other action,
\* and its pair is the last of the returned Artifact; the Artifact of Jmp
\* and of Ijp holds no HeadStep.
C17_TrailingStep ==
    \A o \in Opcode :
        Stepped(o) =>
            IF o \in {"Jmp", "Ijp"}
            THEN HeadSteps(acted) = 0 /\ HeadSteps(RedoActions(ret)) = 0
            ELSE /\ HeadSteps(acted) = 1 /\ acted[Len(acted)] = HeadStep
                 /\ HeadSteps(RedoActions(ret)) = 1
                 /\ ret[Len(ret)].redo = HeadStep

\* Set evaluated with its two operands: two pops, the write, then the step
C17_Witness ==
    /\ Stepped("Set") /\ Len(ret) = 4
    /\ grid # pre.frame.grid
    /\ head.position # pre.frame.head.position

\* the direction each unconditional direction opcode is specified to set
GoTarget == [Gou |-> "Up", Gor |-> "Right", God |-> "Down", Gol |-> "Left"]

\* C18. Unconditional direction opcodes: a step that evaluates Gou, Gor,
\* God or Gol leaves the Head directed Up, Right, Down or Left
\* respectively, whatever it was before, and leaves Stack and Grid as they
\* were.
C18_GoDirections ==
    \A o \in DOMAIN GoTarget :
        Stepped(o) =>
            /\ head.direction = GoTarget[o]
            /\ stack = pre.frame.stack
            /\ grid = pre.frame.grid

\* the number an arithmetic or comparison opcode reads at `depth` from the
\* top of the Stack of before the step: 0 when absent or not a number
NumericAt(depth) ==
    IF Len(pre.frame.stack) > depth
    THEN as_numeric_with_default(
             resolve_to_literal(Peek(pre.frame.stack, depth),
                                pre.frame.grid).val)
    ELSE 0

\* the top of the Stack is a Literal that reads as the number n
TopReads(n) ==
    /\ Len(stack) > 0
    /\ Peek(stack, 0).kind = "Literal"
    /\ as_numeric(Peek(stack, 0).value) = Ok(n)

\* the top of the Stack is a Literal that reads as the largest 32-bit number
TopReadsMax ==
    /\ Len(stack) > 0
    /\ Peek(stack, 0).kind = "Literal"
    /\ as_numeric(Peek(stack, 0).value).ok
    /\ ~FitsU32(as_numeric(Peek(stack, 0).value).val + 1)

\* the exact result of Add and Mul, lhs second from the top, rhs on top
Exact(opcode) ==
    IF opcode = "Add" THEN NumericAt(1) + NumericAt(0)
    ELSE NumericAt(1) * NumericAt(0)

\* C19. Saturating arithmetic: after a step that evaluates Add (Mul), the
\* Literal on top of the Stack reads as lhs + rhs (lhs * rhs) when that
\* fits 32 bits, and as the largest 32-bit number otherwise.
C19_SaturatingArithmetic ==
    \A o \in {"Add", "Mul"} :
        Stepped(o) =>
            IF FitsU32(Exact(o)) THEN TopReads(Exact(o)) ELSE TopReadsMax

\* the actions of kind `type` among the actions
ActionsOfType(actions, type) ==
    Cardinality({i \in 1..Len(actions) : actions[i].type = type})

\* what Sub and Div are specified to push, lhs second from the top, rhs on
\* top
Expected(opcode) ==
    IF opcode = "Sub"
    THEN (IF NumericAt(0) > NumericAt(1) THEN 0 ELSE NumericAt(1) - NumericAt(0))
    ELSE (IF NumericAt(0) = 0 THEN 0 ELSE NumericAt(1) \div NumericAt(0))

\* C20. Operand order, underflow and division by zero: the operand on top
\* of the Stack is rhs and the one below is lhs; after a step that
\* evaluates Sub the top reads as lhs - rhs, 0 when rhs > lhs; after Div,
\* as the integer quotient lhs / rhs, 0 when rhs is 0; each of Add, Sub,
\* Mul and Div acts exactly one StackPush, after its pops.
C20_OperandOrder ==
    /\ \A o \in {"Sub", "Div"} : Stepped(o) => TopReads(Expected(o))
    /\ \A o \in {"Add", "Sub", "Mul", "Div"} :
          Stepped(o) =>
              /\ ActionsOfType(acted, "StackPush") = 1
              /\ acted[Len(acted) - 1].type = "StackPush"
              /\ Len(stack) = ActionsOfType(acted, "StackPush")
                                + Len(pre.frame.stack)
                                - ActionsOfType(acted, "StackPop")

\* Sub evaluated on 7 below 1: the top reads 6
C20_Witness ==
    /\ Stepped("Sub")
    /\ pre.frame.stack = <<Literal(<<55>>), Literal(<<49>>)>>
    /\ stack = <<Literal(<<54>>)>>

\* the literal the operand at `depth` from the top of the Stack of before
\* the step resolves to
LiteralAt(depth) ==
    resolve_to_literal(Peek(pre.frame.stack, depth), pre.frame.grid).val

\* the address the operand at `depth` resolves to, if any
AddressAt(depth) ==
    resolve_to_address(Peek(pre.frame.stack, depth), pre.frame.grid).val

\* the operand at `depth` is absent, or its literal is not an unsigned
\* integer
Defaulted(depth) ==
    Len(pre.frame.stack) <= depth \/ ~as_numeric(LiteralAt(depth)).ok

ValueAt(depth) ==
    IF Defaulted(depth) THEN 0 ELSE as_numeric(LiteralAt(depth)).val

\* 1 for true, 0 for false
Bit(b) == IF b THEN 1 ELSE 0

\* what each numeric opcode is specified to push, from lhs and rhs
Specified(opcode, lhs, rhs) ==
    CASE opcode = "Add" -> lhs + rhs
      [] opcode = "Sub" -> IF rhs > lhs THEN 0 ELSE lhs - rhs
      [] opcode = "Mul" -> lhs * rhs
      [] opcode = "Div" -> IF rhs = 0 THEN 0 ELSE lhs \div rhs
      [] opcode = "Grt" -> Bit(lhs > rhs)
      [] opcode = "Lst" -> Bit(lhs < rhs)
      [] opcode = "Grq" -> Bit(lhs >= rhs)
      [] opcode = "Lsq" -> Bit(lhs <= rhs)

NumericOpcodes == {"Add", "Sub", "Mul", "Div", "Grt", "Lst", "Grq", "Lsq"}

\* the Stack of before the step without its n top operands (or empty)
Without(n) ==
    SubSeq(pre.frame.stack, 1,
           IF Len(pre.frame.stack) > n THEN Len(pre.frame.stack) - n ELSE 0)

\* C21. Numeric pop-with-default: when one of the two operands of Add, Sub,
\* Mul, Div, Grt, Lst, Grq or Lsq is absent or does not read as an unsigned
\* integer, the result pushed is the one computed with 0 in its place; a
\* step that evaluates Add on an empty Stack returns and leaves the Stack
\* holding the Literal "0" alone.
C21_NumericDefault ==
    /\ \A o \in NumericOpcodes :
          (Stepped(o) /\ (Defaulted(0) \/ Defaulted(1))) =>
              /\ TopReads(Specified(o, ValueAt(1), ValueAt(0)))
              /\ stack = Append(Without(2), Peek(stack, 0))
    /\ (last.op = "step" /\ PreWord = OpcodeName.Add /\ pre.frame.stack = <<>>)
          => (status = "running" /\ stack = <<Literal(<<48>>)>>)

\* Sub evaluated on "x" below 7: lhs counts as 0
C21_Witness ==
    /\ Stepped("Sub")
    /\ pre.frame.stack = <<Literal(<<120>>), Literal(<<55>>)>>
    /\ stack = <<Literal(<<48>>)>>

\* C22. Ijp operand order: with two operands on the Stack, Ijp pops both,
\* reads the top one as the boolean and the one below as the address, moves
\* the Head to the address iff the boolean is true, and acts no HeadStep.
C22_IjpOperandOrder ==
    (Stepped("Ijp") /\ Len(pre.frame.stack) >= 2) =>
        /\ stack = Without(2)
        /\ head.position =
             IF as_bool_with_default(LiteralAt(0)) /\ AddressAt(1).ok
             THEN AddressAt(1).val ELSE pre.frame.head.position
        /\ HeadSteps(acted) = 0

\* C23. Ijp default: with the address on top of the Stack, the jump is
\* taken (the Head position becomes the address) when no operand is left
\* for the boolean and when the boolean operand resolves to any literal
\* other than "0"; it is not taken when that literal is "0".
C23_IjpDefault ==
    (Stepped("Ijp") /\ Len(pre.frame.stack) >= 1 /\ AddressAt(0).ok) =>
        head.position =
            IF Len(pre.frame.stack) >= 2 /\ LiteralAt(1) = <<48>>
            THEN pre.frame.head.position
            ELSE AddressAt(0).val

\* Ijp evaluated with the address alone on the Stack: the jump is taken
C23_Witness ==
    /\ Stepped("Ijp")
    /\ pre.frame.stack = <<Address(DataB)>>
    /\ pre.frame.head.position # DataB
    /\ head.position = DataB

\* C24. Jmp: when the operand on top of the Stack resolves to an Address,
\* a step that evaluates Jmp pops it and moves the Head to the position of
\* that address, with no HeadStep; direction, Grid and the rest of the
\* Stack are unchanged.
C24_Jmp ==
    (Stepped("Jmp") /\ Len(pre.frame.stack) >= 1 /\ AddressAt(0).ok) =>
        /\ acted = <<StackPop, HeadMoveTo(AddressAt(0).val)>>
        /\ head.position = AddressAt(0).val
        /\ head.direction = pre.frame.head.direction
        /\ grid = pre.frame.grid
        /\ stack = Without(1)

\* Jmp evaluated with an Address above another operand
C24_Witness ==
    /\ Stepped("Jmp")
    /\ pre.frame.stack = <<Literal(<<55>>), Address(DataB)>>
    /\ pre.frame.head.position # DataB
    /\ head.position = DataB /\ stack = <<Literal(<<55>>)>>

\* the direction each conditional direction opcode is specified to set
IfGoTarget == [Igu |-> "Up", Igr |-> "Right", Igd |-> "Down", Igl |-> "Left"]

\* C25. Conditional direction opcodes: a step that evaluates Igu, Igr, Igd
\* or Igl pops one operand and directs the Head Up, Right, Down or Left
\* iff that operand resolves to the literal "1"; otherwise (no operand,
\* "0", or any other text) the direction is unchanged.
C25_IfGoDirections ==
    \A o \in DOMAIN IfGoTarget :
        Stepped(o) =>
            /\ stack = Without(1)
            /\ head.direction =
                 IF Len(pre.frame.stack) >= 1 /\ LiteralAt(0) = <<49>>
                 THEN IfGoTarget[o] ELSE pre.frame.head.direction

\* Igu evaluated on "1" by a Head directed Right
C25_Witness ==
    /\ Stepped("Igu")
    /\ pre.frame.stack = <<Literal(<<49>>)>>
    /\ pre.frame.head.direction = "Right"
    /\ head.direction = "Up"

\* the positions that hold a cell before or after the last call
Written == (DOMAIN grid) \cup (DOMAIN pre.frame.grid)

\* C26. Set: when the operand on top of the Stack resolves to an address
\* and another operand lies below, a step that evaluates Set pops both and
\* writes the literal of the second at the position of the address: that
\* position then reads as this literal and every other position reads as
\* before.
C26_Set ==
    (Stepped("Set") /\ Len(pre.frame.stack) >= 2 /\ AddressAt(0).ok) =>
        /\ GridGet(grid, AddressAt(0).val) = LiteralAt(1)
        /\ \A p \in Written \ {AddressAt(0).val} :
              GridGet(grid, p) = GridGet(pre.frame.grid, p)
        /\ stack = Without(2)

\* Set evaluated on "7" below @BB, B,B holding another text and C,C a cell
C26_Witness ==
    /\ Stepped("Set")
    /\ pre.frame.stack = <<Literal(<<55>>), Address(DataB)>>
    /\ GridGet(pre.frame.grid, DataB) = <<53>>
    /\ GridGet(grid, DataB) = <<55>>
    /\ GridGet(grid, DataC) = <<48>>

ComparisonOpcodes == {"Grt", "Lst", "Grq", "Lsq"}

\* C27. Comparison opcodes: with two operands on the Stack, rhs on top and
\* lhs below, a step that evaluates a comparison opcode pops both and
\* pushes one Literal, "1" or "0": for Equ "1" iff the two literals have
\* the same text, for Neq the opposite, for Grt, Lst, Grq, Lsq "1" iff
\* lhs >, <, >=, <= rhs on their numeric values.
C27_Comparisons ==
    /\ \A o \in {"Equ", "Neq"} :
          (Stepped(o) /\ Len(pre.frame.stack) >= 2) =>
              stack = Append(Without(2),
                             Literal(IF (LiteralAt(1) = LiteralAt(0)) = (o = "Equ")
                                     THEN <<49>> ELSE <<48>>))
    /\ \A o \in ComparisonOpcodes :
          (Stepped(o) /\ Len(pre.frame.stack) >= 2) =>
              stack = Append(Without(2),
                             Literal(IF Specified(o, ValueAt(1), ValueAt(0)) = 1
                                     THEN <<49>> ELSE <<48>>))
    /\ \A o \in {"Equ", "Neq"} \cup ComparisonOpcodes :
          (Stepped(o) /\ Len(pre.frame.stack) >= 2) =>
              /\ ActionsOfType(acted, "StackPush") = 1
              /\ ActionsOfType(acted, "StackPop") = 2

\* Grt evaluated on 7 below 1: lhs > rhs, "1" pushed
C27_Witness ==
    /\ Stepped("Grt")
    /\ pre.frame.stack = <<Literal(<<55>>), Literal(<<49>>)>>
    /\ stack = <<Literal(<<49>>)>>

\* the operand at `depth` is a Pointer and, counting it, at most 3 pointers
\* are met before a cell that is not a pointer
ShortChainAt(depth) ==
    /\ Peek(pre.frame.stack, depth).kind = "Pointer"
    /\ 1 + ChainLength(Peek(pre.frame.stack, depth).position, pre.frame.grid,
                       MAX_RECURSION_DEPTH) <= MAX_RECURSION_DEPTH

\* the cell that ends the chain of the Pointer at `depth`
ChainEndAt(depth) ==
    Fetched(1 + ChainLength(Peek(pre.frame.stack, depth).position,
                            pre.frame.grid, MAX_RECURSION_DEPTH),
            Peek(pre.frame.stack, depth).position, pre.frame.grid)

\* C28. Pointer chains resolve to the final operand: when Set writes the
\* literal of a Pointer whose chain of at most 3 pointers ends on a cell
\* that is not a pointer, the text written is that cell when it holds a
\* Literal, and the cell at the address it names when it holds an Address.
C28_PointerChain ==
    (/\ Stepped("Set") /\ Len(pre.frame.stack) >= 2 /\ AddressAt(0).ok
     /\ ShortChainAt(1)) =>
        GridGet(grid, AddressAt(0).val) =
            IF AddressFromCell(ChainEndAt(1)).ok
            THEN GridGet(pre.frame.grid, AddressFromCell(ChainEndAt(1)).val)
            ELSE ChainEndAt(1)

\* Set evaluated on Pointer(B,B), with B,B "&CC", C,C "&DD", D,D "@EE" and
\* E,E "&FF": the text "&FF" is written at F,F
C28_Witness ==
    /\ Stepped("Set")
    /\ pre.frame.stack = <<Pointer(Pos(1, 1)), Address(Pos(5, 5))>>
    /\ GridGet(pre.frame.grid, Pos(3, 3)) = <<ADDRESS_PREFIX, 69, 69>>
    /\ GridGet(pre.frame.grid, Pos(5, 5)) = EmptyCell
    /\ GridGet(grid, Pos(5, 5)) = <<POINTER_PREFIX, 70, 70>>

\* C29. Address indirection is single-level: when Set writes the literal
\* of an Address, the text written is the text of the cell at that address
\* as it is, also when that text has the form @XY or &XY, and the empty
\* cell when nothing is held there.
C29_AddressSingleLevel ==
    (/\ Stepped("Set") /\ Len(pre.frame.stack) >= 2 /\ AddressAt(0).ok
     /\ Peek(pre.frame.stack, 1).kind = "Address") =>
        GridGet(grid, AddressAt(0).val)
            = GridGet(pre.frame.grid, Peek(pre.frame.stack, 1).position)

\* Set evaluated on Address(D,D), D,D holding "@EE": "@EE" is written at B,B
C29_Witness ==
    /\ Stepped("Set")
    /\ pre.frame.stack = <<Address(Pos(3, 3)), Address(Pos(1, 1))>>
    /\ GridGet(pre.frame.grid, Pos(3, 3)) = <<ADDRESS_PREFIX, 69, 69>>
    /\ GridGet(pre.frame.grid, Pos(4, 4)) # EmptyCell
    /\ GridGet(grid, Pos(1, 1)) = <<ADDRESS_PREFIX, 69, 69>>

\* the corners of the grid and the cells next to the origin
Probes ==
    {Pos(x, y) : x \in {MIN_NUMERIC, MAX_NUMERIC}, y \in {MIN_NUMERIC, MAX_NUMERIC}}
        \cup {Pos(1, 0), Pos(0, 1)}

\* C30. Grid sparsity: the map of the Grid never holds an empty Cell; after
\* a GridSet, the position set reads as the cell given, its key is absent
\* when that cell is empty, and every other position reads as before; get
\* gives a Cell for every position, held or not.
C30_GridSparsity ==
    /\ \A p \in DOMAIN grid : ~is_empty(grid[p])
    /\ \A p \in Probes \cup DOMAIN grid : Len(GridGet(grid, p)) <= MAX_GRAPHEMES
    /\ (last.op = "act" /\ last.arg.type = "GridSet") =>
          /\ GridGet(grid, last.arg.position) = last.arg.cell
          /\ is_empty(last.arg.cell) => last.arg.position \notin DOMAIN grid
          /\ \A p \in (Written \cup Probes) \ {last.arg.position} :
                GridGet(grid, p) = GridGet(pre.frame.grid, p)

\* a GridSet of the empty cell that removed a key and left another one
C30_Witness ==
    /\ ActedOn(GridSet(ORIGIN, EmptyCell))
    /\ ORIGIN \in DOMAIN pre.frame.grid
    /\ ORIGIN \notin DOMAIN grid
    /\ DOMAIN grid # {}

\* ------------------------------------------------------------------------
\* C31  Cell length cap: after any sequence of Cell::new, new_trim, set,
\* insert_text and delete_char_range a Cell holds at most 3 graphemes;
\* Cell::new of a text of more than 3 graphemes fails; an insertion that
\* would exceed the cap leaves the Cell as it was and reports 0 inserted.
\* ------------------------------------------------------------------------
Edited(op) == last.op = op /\ status = "running"

C31_CellLengthCap ==
    /\ graphemes_count(cell) <= MAX_GRAPHEMES
    /\ Edited("new") /\ graphemes_count(last.arg) > MAX_GRAPHEMES
          => out = Err /\ cell = last.cell
    /\ Edited("insert_text") /\ out = 0 /\ last.arg.text # <<>>
          => cell = last.cell
    /\ Edited("insert_text") /\ cell # last.cell
          => out = Len(last.arg.text)

\* ------------------------------------------------------------------------
\* C32  Coordinate codec round trip: numeric_to_textual of n in 0..63 gives
\* a char that textual_to_numeric gives n back from; textual_to_numeric of
\* a char of A-Z a-z 0-9 + / gives a number that numeric_to_textual gives
\* the char back from; numbers above 63 and other chars are rejected.
\* ------------------------------------------------------------------------
Computed(op) == last.op = op /\ status = "running"

Alphabet == (65..90) \cup (97..122) \cup (48..57) \cup {43, 47}

C32_CodecRoundTrip ==
    /\ Computed("numeric_to_textual") =>
          IF last.arg <= 63
          THEN out.ok /\ out.val \in Alphabet
               /\ textual_to_numeric(out.val) = Ok(last.arg)
          ELSE out = Err
    /\ Computed("textual_to_numeric") =>
          IF last.arg \in Alphabet
          THEN out.ok /\ out.val \in 0..63
               /\ numeric_to_textual(out.val) = Ok(last.arg)
          ELSE out = Err

\* 63 was encoded as "/", which decodes to 63
C32_Witness ==
    /\ Computed("numeric_to_textual") /\ last.arg = 63 /\ out = Ok(47)
    /\ textual_to_numeric(47) = Ok(63)

\* ------------------------------------------------------------------------
\* C33  Checked coordinate arithmetic: checked_increment(v) returns the
\* axis plus v when that is at most 63 and an error otherwise;
\* checked_decrement(v) returns the axis minus v when that is at least 0
\* and an error otherwise; checked_step(direction, offset) moves only the
\* axis of the direction, by offset, and returns an error, neither wrapped
\* nor clamped, when the move would leave [0, 63].
\* ------------------------------------------------------------------------
Checked(value) ==
    IF value >= MIN_NUMERIC /\ value <= MAX_NUMERIC THEN Ok(value) ELSE Err

Moved(position, direction, offset) ==
    LET Along(x, y) ==
            IF Checked(x).ok /\ Checked(y).ok THEN Ok(Pos(x, y)) ELSE Err
    IN  CASE direction = "Up" -> Along(position.x, position.y - offset)
          [] direction = "Down" -> Along(position.x, position.y + offset)
          [] direction = "Left" -> Along(position.x - offset, position.y)
          [] direction = "Right" -> Along(position.x + offset, position.y)

C33_CheckedArithmetic ==
    /\ Computed("checked_increment") => out = Checked(last.point.x + last.arg)
    /\ Computed("checked_decrement") => out = Checked(last.point.x - last.arg)
    /\ Computed("checked_step") =>
          /\ out = Moved(last.point, last.arg.direction, last.arg.offset)
          /\ out.ok => /\ out.val.x \in 0..63 /\ out.val.y \in 0..63
                       /\ out.val.x = last.point.x \/ out.val.y = last.point.y
          /\ ~out.ok => point = last.point

\* A step of 3 to the right of (61, 2) was refused
C33_Witness ==
    /\ Computed("checked_step")
    /\ last.point = Pos(61, 2)
    /\ last.arg = [direction |-> "Right", offset |-> 3]
    /\ out = Err
    /\ point = Pos(61, 2)

\* ------------------------------------------------------------------------
\* C34  Console append-only: ConsolePrint appends its text to the Console
\* buffer, touches neither Grid, Head nor Stack, and returns a redo-only
\* Artifact; across act, step, undo and redo the earlier Console buffer is
\* always a prefix of the later one.
\* ------------------------------------------------------------------------
IsPrefix(earlier, later) ==
    Len(earlier) <= Len(later) /\ SubSeq(later, 1, Len(earlier)) = earlier

C34_ConsoleAppendOnly ==
    /\ last.op = "act" /\ last.arg.type = "ConsolePrint" =>
          /\ console = pre.frame.console \o last.arg.string
          /\ SameState(Frame, pre.frame)
          /\ Len(ret) = 1 /\ ret[1].redo = last.arg /\ ~HasUndo(ret[1])
    /\ IsPrefix(pre.frame.console, console)
    /\ IsPrefix(base.console, console)

\* a printing step was undone, which kept the text, and redone, which
\* printed it again
C34_Witness ==
    /\ last.op = "redo"
    /\ base.grid = Program(<<OpcodeName.Prt>>)
    /\ pre.frame.console = <<55>>
    /\ console = <<55, 55>>

\* ------------------------------------------------------------------------
\* C35  Empty artifacts never enter the History: append and merge_with_last
\* of an empty Artifact leave artifacts and cursor as they were, the undone
\* entries after the cursor included, so every stored artifact holds at
\* least one reciprocal action.
\* ------------------------------------------------------------------------
C35_NoEmptyArtifact ==
    /\ last.into \in {"append", "merge"} /\ ret = EMPTY => History = pre.history
    /\ \A i \in 1..Len(artifacts) : Len(artifacts[i]) >= 1

\* an empty Artifact was appended after an undo: the undone entry is kept
C35_Witness ==
    /\ last.into = "append" /\ ret = EMPTY
    /\ cursor = 0 /\ Len(artifacts) = 1
    /\ History = pre.history

\* the operand at `depth` is a Literal, or a Pointer whose chain of at most
\* 3 pointers ends on a cell that holds a Literal
NotAnAddress(depth) ==
    /\ Len(pre.frame.stack) > depth
    /\ \/ Peek(pre.frame.stack, depth).kind = "Literal"
       \/ /\ ShortChainAt(depth)
          /\ OperandFromCell(ChainEndAt(depth)).kind = "Literal"

\* the operand at `depth` is absent, or its resolution to a literal ends
Settles(depth) ==
    \/ Len(pre.frame.stack) <= depth
    \/ Peek(pre.frame.stack, depth).kind \in {"Literal", "Address"}
    \/ ShortChainAt(depth)

\* the last call was a step() on a cell holding `opcode`
Evaluated(opcode) == last.op = "step" /\ PreWord = OpcodeName[opcode]

\* ------------------------------------------------------------------------
\* C36  Address required: resolve_to_address returns an error for a Literal
\* and for a Pointer whose chain ends at a Literal; Jmp, Ijp and Set given
\* such an operand where the address is expected still pop their operands,
\* but Jmp and Ijp do not move the Head and Set does not write the Grid,
\* and the step returns.
\* ------------------------------------------------------------------------
C36_AddressRequired ==
    /\ NotAnAddress(0) =>
          resolve_to_address(Peek(pre.frame.stack, 0), pre.frame.grid)
              = Returned(Err)
    /\ Evaluated("Jmp") /\ NotAnAddress(0) =>
          /\ status = "running"
          /\ stack = Without(1)
          /\ head = pre.frame.head /\ grid = pre.frame.grid
    /\ Evaluated("Ijp") /\ NotAnAddress(0) /\ Settles(1) =>
          /\ status = "running"
          /\ stack = Without(2)
          /\ head = pre.frame.head /\ grid = pre.frame.grid
    /\ Evaluated("Set") /\ NotAnAddress(0) /\ Settles(1) =>
          /\ status = "running"
          /\ stack = Without(2)
          /\ grid = pre.frame.grid

\* Set evaluated with a Pointer to the Literal "5" where the address is
\* expected, above "7": both are popped, nothing is written
C36_Witness ==
    /\ Evaluated("Set")
    /\ pre.frame.stack = <<Literal(<<55>>), Pointer(DataB)>>
    /\ GridGet(pre.frame.grid, DataB) = <<53>>
    /\ stack = <<>>
    /\ grid = pre.frame.grid
    /\ status = "running"

\* the Artifact ends with the actions of `other`
EndsWith(artifact, other) ==
    /\ Len(artifact) >= Len(other)
    /\ SubSeq(artifact, Len(artifact) - Len(other) + 1, Len(artifact)) = other

\* ------------------------------------------------------------------------
\* C37  Merged edits stay undoable: after a non-empty Artifact b was
\* applied to the Frame and passed to merge_with_last, also after undos,
\* the actions of b belong to the done entries artifacts[0..cursor], and
\* the next undo undoes them.
\* ------------------------------------------------------------------------
C37_MergedUndoable ==
    Merged =>
        /\ cursor >= 1
        /\ EndsWith(artifacts[cursor], ret)
        /\ EndsWith(HistoryUndo(History, Frame).artifact, ret)

\* ------------------------------------------------------------------------
\* C38  Arithmetic results survive the Stack: the Literal that Add, Sub,
\* Mul or Div pushes reads back, with as_numeric, as the result computed
\* from the two operand values, results of 1000 and more included.
\* ------------------------------------------------------------------------
C38_ResultsSurvive ==
    \A o \in {"Add", "Sub", "Mul", "Div"} :
        (Stepped(o) /\ FitsU32(Specified(o, NumericAt(1), NumericAt(0)))) =>
            TopReads(Specified(o, NumericAt(1), NumericAt(0)))

\* the Head of the Frame is on a Jmp cell and the Stack is empty
Stuck(frame) ==
    /\ GridGet(frame.grid, frame.head.position) = OpcodeName.Jmp
    /\ frame.stack = <<>>

\* ------------------------------------------------------------------------
\* C39  Failed jump makes no progress: a step on a Jmp cell whose top
\* operand does not resolve to an address, or with an empty Stack, leaves
\* the position and the direction of the Head as they were; with an empty
\* Stack the whole Frame is left as it was, so steps (and undos and redos)
\* from there stay on the same cell forever, and yet each step returns a
\* redo-only StackPop Artifact that History::append stores as a new entry.
\* ------------------------------------------------------------------------
C39_FailedJump ==
    /\ Evaluated("Jmp") /\ (pre.frame.stack = <<>> \/ NotAnAddress(0)) =>
          status = "running" /\ head = pre.frame.head
    /\ Stuck(base) => Frame = base /\ status = "running"
    /\ last.op = "step" /\ Stuck(pre.frame) =>
          /\ Frame = pre.frame
          /\ ret = <<[redo |-> StackPop, undo |-> None]>>
          /\ artifacts = Append(SubSeq(pre.history.artifacts, 1,
                                       pre.history.cursor), ret)
          /\ cursor = pre.history.cursor + 1

\* two steps on a Jmp cell with an empty Stack: the Frame is the one the
\* session started from and the History holds two entries
C39_Witness ==
    /\ last.op = "step" /\ Stuck(pre.frame) /\ Stuck(base)
    /\ Frame = base
    /\ Len(artifacts) = 2 /\ cursor = 2

\* ------------------------------------------------------------------------
\* C40  No torn reads under the host lock: the editor holds the Mutex of
\* the Frame for the whole of a step, an undo or a redo, so a reader that
\* takes the same Mutex never reads a Frame strictly between two actions
\* of one Artifact, whatever the interleaving of the two threads.
\* ------------------------------------------------------------------------
C40_NoTornRead ==
    /\ seen # None => seen.before = 0 \/ seen.after = 0
    /\ mutex = "reader" => todo = <<>> \/ acted = <<>>
    /\ mutex # "editor" /\ status = "running" => todo = <<>>

\* the reader read the Frame after a step of two actions and the editor is
\* in the middle of undoing it
C40_Witness ==
    /\ seen # None /\ seen.before = 2 /\ seen.after = 0
    /\ seen.frame # Frame
    /\ last.op = "undo" /\ mutex = "editor"
    /\ Len(acted) = 1 /\ Len(todo) = 1

====
